---------------------------- MODULE Spec2Model ----------------------------
(***************************************************************************)
(* The ingestion-and-quality pipeline of "Assignment 7":                   *)
(*   Cloud_functions/gcs_to_bq/main.py        the gcs_to_bq entry point    *)
(*   Cloud_functions/gcs_to_bq/BQ_SQL/*.py    cleaner, backup, validator   *)
(*                                                                         *)
(* Spec        concurrent gcs_to_bq invocations over one BigQuery store    *)
(* SpecRouter  the request router applied to every object name             *)
(* SpecClean   callers of DataCleaner / BackupManager / DataValidator      *)
(***************************************************************************)
EXTENDS Integers, Sequences, FiniteSets, TLC

(***************************************************************************)
(* Object names.  A name is a sequence of lexemes; "-" and "_" are the     *)
(* delimiter characters, every other lexeme stands for a run of characters *)
(* that contains neither of them.                                          *)
(***************************************************************************)
Lexemes == {"d", "create", "append", "CREATE", "x", "-", "_", ".csv", ".txt"}

\* str.endswith('.csv')
EndsWithCsv(name) == Len(name) > 0 /\ name[Len(name)] = ".csv"

\* Index of the first "__" in s, 0 when there is none (str.split("__", 1)).
FirstDouble(s) ==
    LET hits == {k \in 1..(Len(s) - 1) : s[k] = "_" /\ s[k + 1] = "_"}
    IN  IF hits = {} THEN 0 ELSE CHOOSE k \in hits : \A m \in hits : k <= m

\* str.split("-"): the tokens between single delimiters, empty ones included.
RECURSIVE SplitDash(_)
SplitDash(s) ==
    LET cuts == {k \in 1..Len(s) : s[k] = "-"}
    IN  IF cuts = {} THEN <<s>>
        ELSE LET k == CHOOSE c \in cuts : \A m \in cuts : c <= m
             IN  <<SubSeq(s, 1, k - 1)>> \o SplitDash(SubSeq(s, k + 1, Len(s)))

\* str.lower() on one lexeme, then on a token.
LowerLexeme(c) == IF c = "CREATE" THEN "create" ELSE c
Lower(tok) == [k \in 1..Len(tok) |-> LowerLexeme(tok[k])]

Malformed == [kind |-> "ValueError"]

\* parse_filename unpacking the first three tokens of longer metadata too.
parse_filename_lenient(file_name) ==
    LET at == FirstDouble(file_name)
    IN  IF at = 0 THEN Malformed
        ELSE LET meta == SubSeq(file_name, 1, at - 1)
                 actual_file == SubSeq(file_name, at + 2, Len(file_name))
                 toks == SplitDash(meta)
             IN  IF Len(toks) < 3 THEN Malformed
                 ELSE [kind |-> "parsed", dataset_id |-> toks[1], table_id |-> toks[2],
                       mode |-> Lower(toks[3]), actual_file |-> actual_file]

\* parse_filename: (dataset_id, table_id, mode, actual_file) or the ValueError.
parse_filename(file_name) ==
    LET at == FirstDouble(file_name)
    IN  IF at = 0 THEN Malformed
        ELSE LET meta == SubSeq(file_name, 1, at - 1)
                 actual_file == SubSeq(file_name, at + 2, Len(file_name))
                 toks == SplitDash(meta)
             IN  IF Len(toks) # 3 THEN Malformed
                 ELSE [kind |-> "parsed", dataset_id |-> toks[1], table_id |-> toks[2],
                       mode |-> Lower(toks[3]), actual_file |-> actual_file]

\* The head of gcs_to_bq: the extension check, then parse_filename inside the
\* try block whose handler logs and re-raises.
RouterOutcome(name) ==
    IF ~EndsWithCsv(name) THEN [kind |-> "skipped"]
    ELSE parse_filename(name)


(***************************************************************************)
(* Bounds of the model.                                                    *)
(***************************************************************************)
NumInvocations == 2
MaxFileRows == 1
MaxTableRows == 2
MaxColumns == 2

Invocations == 1..NumInvocations

\* verify_dataset_creation(..., max_attempts=5, ...) and verify_table_load alike.
max_attempts == 5

(***************************************************************************)
(* The object names that trigger gcs_to_bq in Spec.                        *)
(***************************************************************************)
TriggerNames ==
    { <<"d", "-", "t", "-", "create", "_", "_", "x", ".csv">>,
      <<"d", "-", "t", "-", "append", "_", "_", "x", ".csv">>,
      <<"d", "-", "t", "-", "x", "_", "_", "x", ".csv">>,
      <<"d", "-", "t", "_", "_", "x", ".csv">>,
      <<"d", "-", "t", "-", "create", ".csv">>,
      <<"d", "-", "t", "-", "create", "_", "_", "x", ".txt">> }

Requests == {RouterOutcome(n) : n \in TriggerNames}
DatasetIds == {r.dataset_id : r \in {q \in Requests : q.kind = "parsed"}}
\* table_ref = f"{project_id}.{dataset_id}.{table_id}"
TableRef(r) == <<r.dataset_id, r.table_id>>
TableRefs == {TableRef(r) : r \in {q \in Requests : q.kind = "parsed"}}

NoReq == [kind |-> "none"]
NoTable == [rows |-> -1]
NoPayload == [ncols |-> 0]

VARIABLES
    \* the BigQuery store, shared by every invocation
    dataset,    \* dataset id -> "absent" | "pending" (created, not yet visible) | "visible"
    table,      \* table ref -> NoTable | [rows, srcs, ncols, raw]
                \*   srcs: whose load jobs the rows came from, 0 for the rows
                \*         that were there before any invocation ran
                \*   raw:  the values are as loaded, not yet cleaned
    \* one gcs_to_bq invocation per slot
    pc,         \* position in gcs_to_bq
    req,        \* (dataset_id, table_id, mode, actual_file) of parse_filename
    payload,    \* the blob: the header columns (clean_fields)
    attempt,    \* loop variable of the running verify_* poll
    ensured,    \* how create_dataset_if_not_exists returned
    existing,   \* what the CREATE-mode get_table saw
    outcome,    \* how the invocation ended
    calls,      \* the cloud calls the invocation has made
    again,      \* the running ensure call began after one had reported success
    succeeded,  \* dataset id -> some ensure call has reported success for it
    \* the router applied to one name (SpecRouter)
    rname, routed,
    \* the BQ_SQL library and its callers (SpecClean)
    backups,    \* backup_table_ref -> NoTable | the copied table
    now,        \* int(time.time())
    held,       \* the last reference create_backup returned to a caller
    live,       \* the caller still holds it: not None, not yet cleaned up
    snap,       \* the table as it was when the held backup was taken
    phase,      \* "fresh" | "updated" | "valid" | "invalid": UPDATE and validation
                \* since the caller's last backup
    last,       \* the last library call: [op, by, ret, was]
    \* schema inference applied to one input (SpecNames, SpecType, SpecSchema)
    col_name, clean_name,       \* a header cell and clean_column of it
    col_values, col_type,       \* a column of sampled cells and detect_column_type of it
    raw_header, rows, inferred, \* the header line, the lines after it and
                                \* what process_csv_schema returns for them
    \* the cleaning plan of DataCleaner for one column (SpecPlan)
    field_stats,        \* quality_report[field]
    cleaner_config,     \* config
    cleaning_plan,      \* what _determine_cleaning_operations returns
    \* DataValidator.validate_cleaning_results on one input (SpecValid)
    validation,         \* [original_row_count, current_row_count, tolerance_pct, raised, ret]
    \* the clean_table function and the tables of its dataset (SpecCopy)
    copies,             \* table id -> NoTable | [rows, dup_count, na_count]
    copy_run,           \* the last execution of clean_bq_table
    \* DataQualityAnalyzer.analyze_table_quality on one input (SpecAnalyze)
    analysis,           \* the table and the columns it was called with
    report,             \* what it returned
    column_queries,     \* the columns _analyze_column has queried, in order
    \* DataValidator.validate_data_integrity on one input (SpecValid)
    integrity,          \* [fields, schema_columns, raised, ret]
    \* DataCleaner.perform_smart_cleaning on one table (SpecExecute, SpecPipeline)
    column_state,       \* column of the table -> "raw" | "cleaned"
    statements,         \* the statements issued against the table, in order
    smart_ret           \* how perform_smart_cleaning returned

storeVars == <<dataset, table>>
invVars == <<pc, req, payload, attempt, ensured, existing, outcome, calls, again, succeeded>>
routerVars == <<rname, routed>>
cleanVars == <<backups, now, held, live, snap, phase, last>>
inferVars == <<col_name, clean_name, col_values, col_type, raw_header, rows, inferred>>
libVars == <<field_stats, cleaner_config, cleaning_plan, validation, copies, copy_run,
             analysis, report, column_queries>>
execVars == <<integrity, column_state, statements, smart_ret>>
vars == <<storeVars, invVars, routerVars, cleanVars, inferVars, libVars, execVars>>


(***************************************************************************)
(* gcs_to_bq, one action per step between two accesses to the store.       *)
(***************************************************************************)
Finish(i, how) ==
    /\ pc' = [pc EXCEPT ![i] = "done"]
    /\ outcome' = [outcome EXCEPT ![i] = how]
    /\ attempt' = [attempt EXCEPT ![i] = 0]
    /\ payload' = [payload EXCEPT ![i] = NoPayload]

Called(i, what) == calls' = [calls EXCEPT ![i] = @ \cup {what}]

IsCreate(r) == r.mode = <<"create">>

\* Trigger with the extension check placed after the clients are constructed.
TriggerSkipAfterClients(i, name, usable) ==
    /\ pc[i] \in {"idle", "done"}
    /\ ensured' = [ensured EXCEPT ![i] = "none"]
    /\ existing' = [existing EXCEPT ![i] = "unchecked"]
    /\ LET r == RouterOutcome(name)
       IN  IF r.kind = "skipped"
           THEN /\ Finish(i, "skipped")
                /\ req' = [req EXCEPT ![i] = NoReq]
                /\ calls' = [calls EXCEPT ![i] = {"clients"}]
           ELSE IF r.kind = "ValueError"
           THEN /\ Finish(i, "raised")
                /\ req' = [req EXCEPT ![i] = NoReq]
                /\ calls' = [calls EXCEPT ![i] = {}]
           ELSE /\ req' = [req EXCEPT ![i] = r]
                /\ calls' = [calls EXCEPT ![i] = {"clients", "storage"}]
                /\ IF ~usable
                   THEN Finish(i, "schema_abort")
                   ELSE /\ pc' = [pc EXCEPT ![i] = "ds_get"]
                        /\ outcome' = [outcome EXCEPT ![i] = "none"]
                        /\ attempt' = [attempt EXCEPT ![i] = 0]
                        /\ payload' = [payload EXCEPT ![i] = NoPayload]
    /\ UNCHANGED <<libVars, execVars, storeVars, again, succeeded, routerVars, inferVars, cleanVars>>

\* A new storage event starts gcs_to_bq in a free slot: the extension check,
\* parse_filename, the clients, process_csv_schema.  usable: the sample holds
\* a row that is not blank; what the rows hold is first read by the load job.
Trigger(i, name, usable) ==
    /\ pc[i] \in {"idle", "done"}
    /\ ensured' = [ensured EXCEPT ![i] = "none"]
    /\ existing' = [existing EXCEPT ![i] = "unchecked"]
    /\ LET r == RouterOutcome(name)
       IN  IF r.kind = "skipped"
           THEN /\ Finish(i, "skipped")
                /\ req' = [req EXCEPT ![i] = NoReq]
                /\ calls' = [calls EXCEPT ![i] = {}]
           ELSE IF r.kind = "ValueError"
           THEN /\ Finish(i, "raised")
                /\ req' = [req EXCEPT ![i] = NoReq]
                /\ calls' = [calls EXCEPT ![i] = {}]
           ELSE /\ req' = [req EXCEPT ![i] = r]
                /\ calls' = [calls EXCEPT ![i] = {"clients", "storage"}]
                /\ IF ~usable
                   THEN Finish(i, "schema_abort")
                   ELSE /\ pc' = [pc EXCEPT ![i] = "ds_get"]
                        /\ outcome' = [outcome EXCEPT ![i] = "none"]
                        /\ attempt' = [attempt EXCEPT ![i] = 0]
                        /\ payload' = [payload EXCEPT ![i] = NoPayload]
    /\ UNCHANGED <<libVars, execVars, storeVars, again, succeeded, routerVars, inferVars, cleanVars>>

\* create_dataset_if_not_exists: bq.get_dataset
EnsureGet(i) ==
    /\ pc[i] = "ds_get"
    /\ Called(i, "ds_get")
    /\ IF dataset[req[i].dataset_id] = "visible"
       THEN /\ ensured' = [ensured EXCEPT ![i] = "exists"]
            /\ pc' = [pc EXCEPT ![i] = "tbl_check"]
            /\ succeeded' = [succeeded EXCEPT ![req[i].dataset_id] = TRUE]
            /\ UNCHANGED again
       ELSE /\ pc' = [pc EXCEPT ![i] = "ds_create"]
            /\ again' = [again EXCEPT ![i] = succeeded[req[i].dataset_id]]
            /\ UNCHANGED <<ensured, succeeded>>
    /\ UNCHANGED <<libVars, execVars, storeVars, req, payload, attempt, existing, outcome, routerVars, inferVars, cleanVars>>

\* create_dataset_if_not_exists: bq.create_dataset accepted
EnsureCreateOk(i) ==
    /\ pc[i] = "ds_create"
    /\ dataset[req[i].dataset_id] = "absent"
    /\ Called(i, "ds_create")
    /\ dataset' = [dataset EXCEPT ![req[i].dataset_id] = "pending"]
    /\ pc' = [pc EXCEPT ![i] = "ds_poll"]
    /\ attempt' = [attempt EXCEPT ![i] = 0]
    /\ again' = [again EXCEPT ![i] = FALSE]
    /\ UNCHANGED <<libVars, execVars, table, req, payload, ensured, existing, outcome, succeeded, routerVars, inferVars, cleanVars>>

\* EnsureCreateConflict with Conflict handled like any other error.
EnsureCreateConflictFails(i) ==
    /\ pc[i] = "ds_create"
    /\ dataset[req[i].dataset_id] # "absent"
    /\ Called(i, "ds_create")
    /\ ensured' = [ensured EXCEPT ![i] = "conflict"]
    /\ Finish(i, "ds_failed")
    /\ again' = [again EXCEPT ![i] = FALSE]
    /\ UNCHANGED <<libVars, execVars, storeVars, req, existing, succeeded, routerVars, inferVars, cleanVars>>

\* create_dataset_if_not_exists: bq.create_dataset raises Conflict
EnsureCreateConflict(i) ==
    /\ pc[i] = "ds_create"
    /\ dataset[req[i].dataset_id] # "absent"
    /\ Called(i, "ds_create")
    /\ ensured' = [ensured EXCEPT ![i] = "conflict"]
    /\ pc' = [pc EXCEPT ![i] = "tbl_check"]
    /\ again' = [again EXCEPT ![i] = FALSE]
    /\ succeeded' = [succeeded EXCEPT ![req[i].dataset_id] = TRUE]
    /\ UNCHANGED <<libVars, execVars, storeVars, req, payload, attempt, existing, outcome, routerVars, inferVars, cleanVars>>

\* create_dataset_if_not_exists: bq.create_dataset raises anything else
EnsureCreateError(i) ==
    /\ pc[i] = "ds_create"
    /\ Called(i, "ds_create")
    /\ ensured' = [ensured EXCEPT ![i] = "error"]
    /\ Finish(i, "ds_failed")
    /\ again' = [again EXCEPT ![i] = FALSE]
    /\ UNCHANGED <<libVars, execVars, storeVars, req, existing, succeeded, routerVars, inferVars, cleanVars>>

\* EnsurePoll giving up one attempt early.
EnsurePollOffByOne(i) ==
    /\ pc[i] = "ds_poll"
    /\ Called(i, "ds_get")
    /\ IF dataset[req[i].dataset_id] = "visible"
       THEN /\ ensured' = [ensured EXCEPT ![i] = "verified"]
            /\ pc' = [pc EXCEPT ![i] = "tbl_check"]
            /\ succeeded' = [succeeded EXCEPT ![req[i].dataset_id] = TRUE]
            /\ UNCHANGED <<attempt, outcome, payload>>
       ELSE IF attempt[i] < max_attempts - 2
       THEN /\ attempt' = [attempt EXCEPT ![i] = @ + 1]
            /\ UNCHANGED <<ensured, pc, outcome, payload, succeeded>>
       ELSE /\ ensured' = [ensured EXCEPT ![i] = "timeout"]
            /\ pc' = [pc EXCEPT ![i] = "done"]
            /\ outcome' = [outcome EXCEPT ![i] = "ds_failed"]
            /\ UNCHANGED <<attempt, payload, succeeded>>
    /\ UNCHANGED <<libVars, execVars, storeVars, req, existing, again, routerVars, inferVars, cleanVars>>

\* verify_dataset_creation: one pass of the loop
EnsurePoll(i) ==
    /\ pc[i] = "ds_poll"
    /\ Called(i, "ds_get")
    /\ IF dataset[req[i].dataset_id] = "visible"
       THEN /\ ensured' = [ensured EXCEPT ![i] = "verified"]
            /\ pc' = [pc EXCEPT ![i] = "tbl_check"]
            /\ succeeded' = [succeeded EXCEPT ![req[i].dataset_id] = TRUE]
            /\ UNCHANGED <<attempt, outcome, payload>>
       ELSE IF attempt[i] < max_attempts - 1
       THEN /\ attempt' = [attempt EXCEPT ![i] = @ + 1]
            /\ UNCHANGED <<ensured, pc, outcome, payload, succeeded>>
       ELSE /\ ensured' = [ensured EXCEPT ![i] = "timeout"]
            /\ pc' = [pc EXCEPT ![i] = "done"]
            /\ outcome' = [outcome EXCEPT ![i] = "ds_failed"]
            /\ UNCHANGED <<attempt, payload, succeeded>>
    /\ UNCHANGED <<libVars, execVars, storeVars, req, existing, again, routerVars, inferVars, cleanVars>>

\* The store: a created dataset becomes visible to get_dataset.
Propagate(d) ==
    /\ dataset[d] = "pending"
    /\ dataset' = [dataset EXCEPT ![d] = "visible"]
    /\ UNCHANGED <<libVars, execVars, table, invVars, routerVars, inferVars, cleanVars>>

\* TableCheck with the early return of the found branch lost.
TableCheckFallsThrough(i) ==
    /\ pc[i] = "tbl_check"
    /\ IF IsCreate(req[i])
       THEN /\ Called(i, "tbl_get")
            /\ existing' = [existing EXCEPT ![i] =
                               IF table[TableRef(req[i])] # NoTable THEN "found" ELSE "notfound"]
       ELSE UNCHANGED <<existing, calls>>
    /\ pc' = [pc EXCEPT ![i] = "load"]
    /\ UNCHANGED <<libVars, execVars, storeVars, req, ensured, outcome, attempt, payload, again, succeeded,
                   routerVars, inferVars, cleanVars>>

\* gcs_to_bq: the existence check of 'create' mode
TableCheck(i) ==
    /\ pc[i] = "tbl_check"
    /\ IF IsCreate(req[i])
       THEN /\ Called(i, "tbl_get")
            /\ IF table[TableRef(req[i])] # NoTable
               THEN /\ existing' = [existing EXCEPT ![i] = "found"]
                    /\ Finish(i, "conflict")
               ELSE /\ existing' = [existing EXCEPT ![i] = "notfound"]
                    /\ pc' = [pc EXCEPT ![i] = "load"]
                    /\ UNCHANGED <<outcome, attempt, payload>>
       ELSE /\ pc' = [pc EXCEPT ![i] = "load"]
            /\ UNCHANGED <<existing, outcome, calls, attempt, payload>>
    /\ UNCHANGED <<libVars, execVars, storeVars, req, ensured, again, succeeded, routerVars, inferVars, cleanVars>>

\* What a finished load job leaves in the destination: WRITE_TRUNCATE for
\* 'create', WRITE_APPEND otherwise.
Loaded(old, i, r, k, ncols) ==
    LET fresh == [rows |-> k, srcs |-> IF k > 0 THEN {i} ELSE {}, ncols |-> ncols,
                  raw |-> TRUE]
    IN  IF IsCreate(r) \/ old = NoTable THEN fresh
        ELSE [rows |-> old.rows + k,
              srcs |-> old.srcs \cup fresh.srcs,
              ncols |-> old.ncols,
              raw |-> old.raw \/ k > 0]

\* A load job the store accepts: an append must match the table's schema.
LoadAccepted(old, r, k, ncols) ==
    IF IsCreate(r) \/ old = NoTable THEN TRUE
    ELSE old.ncols = ncols /\ old.rows + k <= MaxTableRows

\* load_csv_to_bigquery: load_table_from_uri and result() succeed; k of the
\* payload's rows are good records.
LoadOk(i, k, ncols) ==
    /\ pc[i] = "load"
    /\ LoadAccepted(table[TableRef(req[i])], req[i], k, ncols)
    /\ Called(i, "load")
    /\ payload' = [payload EXCEPT ![i] = [ncols |-> ncols]]
    /\ table' = [table EXCEPT ![TableRef(req[i])] = Loaded(@, i, req[i], k, ncols)]
    /\ pc' = [pc EXCEPT ![i] = "verify"]
    /\ attempt' = [attempt EXCEPT ![i] = 0]
    /\ UNCHANGED <<libVars, execVars, dataset, req, ensured, existing, outcome, again, succeeded, routerVars, inferVars, cleanVars>>

\* load_csv_to_bigquery: the job raises; the function returns False
LoadFail(i) ==
    /\ pc[i] = "load"
    /\ Called(i, "load")
    /\ Finish(i, "load_failed")
    /\ UNCHANGED <<libVars, execVars, storeVars, req, ensured, existing, again, succeeded, routerVars, inferVars, cleanVars>>

\* VerifyPoll that keeps polling an empty table after the last attempt.
VerifyPollUnbounded(i) ==
    /\ pc[i] = "verify"
    /\ Called(i, "tbl_get")
    /\ LET t == table[TableRef(req[i])]
       IN  IF t = NoTable
           THEN Finish(i, "verify_failed")
           ELSE IF t.rows = 0
           THEN /\ attempt' = [attempt EXCEPT ![i] = IF @ < max_attempts THEN @ + 1 ELSE @]
                /\ UNCHANGED <<pc, outcome, payload>>
           ELSE /\ pc' = [pc EXCEPT ![i] = "quality"]
                /\ attempt' = [attempt EXCEPT ![i] = 0]
                /\ UNCHANGED <<outcome, payload>>
    /\ UNCHANGED <<libVars, execVars, storeVars, req, ensured, existing, again, succeeded, routerVars, inferVars, cleanVars>>

\* VerifyPoll with an empty table at the last attempt reported as a failure.
VerifyPollStrict(i) ==
    /\ pc[i] = "verify"
    /\ Called(i, "tbl_get")
    /\ LET t == table[TableRef(req[i])]
       IN  IF t = NoTable
           THEN Finish(i, "verify_failed")
           ELSE IF t.rows = 0 /\ attempt[i] < max_attempts - 1
           THEN /\ attempt' = [attempt EXCEPT ![i] = @ + 1]
                /\ UNCHANGED <<pc, outcome, payload>>
           ELSE IF t.rows = 0
           THEN Finish(i, "verify_failed")
           ELSE /\ pc' = [pc EXCEPT ![i] = "quality"]
                /\ attempt' = [attempt EXCEPT ![i] = 0]
                /\ UNCHANGED <<outcome, payload>>
    /\ UNCHANGED <<libVars, execVars, storeVars, req, ensured, existing, again, succeeded, routerVars, inferVars, cleanVars>>

\* verify_table_load: one pass of the loop
VerifyPoll(i) ==
    /\ pc[i] = "verify"
    /\ Called(i, "tbl_get")
    /\ LET t == table[TableRef(req[i])]
       IN  IF t = NoTable
           THEN Finish(i, "verify_failed")
           ELSE IF t.rows = 0 /\ attempt[i] < max_attempts - 1
           THEN /\ attempt' = [attempt EXCEPT ![i] = @ + 1]
                /\ UNCHANGED <<pc, outcome, payload>>
           ELSE /\ pc' = [pc EXCEPT ![i] = "quality"]
                /\ attempt' = [attempt EXCEPT ![i] = 0]
                /\ UNCHANGED <<outcome, payload>>
    /\ UNCHANGED <<libVars, execVars, storeVars, req, ensured, existing, again, succeeded, routerVars, inferVars, cleanVars>>

\* run_data_quality_checks; queryFails is the schema query raising.
QualityResult(t, ncols, queryFails) ==
    IF t = NoTable \/ t.rows = 0 THEN FALSE
    ELSE IF ~queryFails /\ ncols > t.ncols THEN FALSE
    ELSE ncols >= 2

QualityChecks(i, queryFails) ==
    /\ pc[i] = "quality"
    /\ Called(i, "query")
    /\ Finish(i, IF QualityResult(table[TableRef(req[i])], payload[i].ncols, queryFails)
                 THEN "loaded" ELSE "quality_failed")
    /\ UNCHANGED <<libVars, execVars, storeVars, req, ensured, existing, again, succeeded, routerVars, inferVars, cleanVars>>

InitStore ==
    /\ dataset \in [DatasetIds -> {"absent", "visible"}]
    /\ table \in [TableRefs -> {NoTable} \cup
                     [rows : 0..1, srcs : {{0}}, ncols : 1..MaxColumns, raw : {TRUE}]]
    /\ \A t \in TableRefs :
          table[t] # NoTable =>
             /\ dataset[t[1]] = "visible"
             /\ table[t].rows > 0

InitInvocations ==
    /\ again = [i \in Invocations |-> FALSE]
    /\ succeeded = [d \in DatasetIds |-> FALSE]
    /\ pc = [i \in Invocations |-> "idle"]
    /\ req = [i \in Invocations |-> NoReq]
    /\ payload = [i \in Invocations |-> NoPayload]
    /\ attempt = [i \in Invocations |-> 0]
    /\ ensured = [i \in Invocations |-> "none"]
    /\ existing = [i \in Invocations |-> "unchecked"]
    /\ outcome = [i \in Invocations |-> "none"]
    /\ calls = [i \in Invocations |-> {}]

NoRoute == [kind |-> "none"]
RouterIdle == rname = <<>> /\ routed = NoRoute

NoRef == <<>>
NoCall == [op |-> "none", by |-> 0, ret |-> FALSE, was |-> 0]

CleanIdle ==
    /\ backups = <<>>
    /\ now = 0
    /\ held = <<>>
    /\ live = <<>>
    /\ snap = <<>>
    /\ phase = <<>>
    /\ last = NoCall

NoSchema == [kind |-> "none"]

InferIdle ==
    /\ col_name = <<>>
    /\ clean_name = <<>>
    /\ col_values = <<>>
    /\ col_type = "none"
    /\ raw_header = <<>>
    /\ rows = <<>>
    /\ inferred = NoSchema

\* quality_report.get(field, {}) of a field the report does not have
NoStats == [total_rows |-> 0, empty_string_count |-> 0, whitespace_only_count |-> 0]
NoConfig == [max_empty_percentage |-> 0, min_issue_percentage |-> 0, operations |-> {}]

\* no plan has been determined yet
NoPlan == <<[field |-> "none", operations |-> <<>>]>>

PlanIdle ==
    /\ field_stats = NoStats
    /\ cleaner_config = NoConfig
    /\ cleaning_plan = NoPlan

NoValidation == [original_row_count |-> 0, current_row_count |-> 0, tolerance_pct |-> 0,
                 raised |-> FALSE, ret |-> FALSE]

ValidIdle == validation = NoValidation

NoId == [table_id |-> "none", stamps |-> <<>>]
NoRun == [source |-> NoId, destination |-> NoId, how |-> "none"]

CopyIdle ==
    /\ copies = <<>>
    /\ copy_run = NoRun

NoAnalysis == [num_rows |-> -1]
NoReport == [table |-> "none"]

AnalyzeIdle ==
    /\ analysis = NoAnalysis
    /\ report = NoReport
    /\ column_queries = <<>>

NoIntegrity == [fields |-> {}, schema_columns |-> {}, raised |-> FALSE, ret |-> FALSE]

ExecIdle ==
    /\ integrity = NoIntegrity
    /\ column_state = <<>>
    /\ statements = <<>>
    /\ smart_ret = "none"

LibIdle == PlanIdle /\ ValidIdle /\ CopyIdle /\ AnalyzeIdle /\ ExecIdle

Init == InitStore /\ InitInvocations /\ RouterIdle /\ CleanIdle /\ InferIdle /\ LibIdle

Next ==
    \/ \E i \in Invocations, n \in TriggerNames, usable \in BOOLEAN : Trigger(i, n, usable)
    \/ \E i \in Invocations : EnsureGet(i)
    \/ \E i \in Invocations : EnsureCreateOk(i)
    \/ \E i \in Invocations : EnsureCreateConflict(i)
    \/ \E i \in Invocations : EnsureCreateError(i)
    \/ \E i \in Invocations : EnsurePoll(i)
    \/ \E d \in DatasetIds : Propagate(d)
    \/ \E i \in Invocations : TableCheck(i)
    \/ \E i \in Invocations, k \in 0..MaxFileRows, ncols \in 1..MaxColumns : LoadOk(i, k, ncols)
    \/ \E i \in Invocations : LoadFail(i)
    \/ \E i \in Invocations : VerifyPoll(i)
    \/ \E i \in Invocations, queryFails \in BOOLEAN : QualityChecks(i, queryFails)

Spec == Init /\ [][Next]_vars


(***************************************************************************)
(* Claims about gcs_to_bq, checked under Spec.                             *)
(***************************************************************************)
EnsureSuccess == {"exists", "conflict", "verified"}
Parsed(i) == req[i].kind = "parsed"

\* C1: a CREATE-mode invocation whose existence check finds the table ends at
\* that step as a conflict (a normal return, no error), submits no load job
\* and leaves every table, so the row count, as it was.
C1_CreateConflictNoLoad ==
    [][\A i \in Invocations :
          (/\ pc[i] = "tbl_check"
           /\ pc'[i] # "tbl_check"
           /\ IsCreate(req[i])
           /\ table[TableRef(req[i])] # NoTable)
          => /\ table' = table
             /\ pc'[i] = "done"
             /\ outcome'[i] = "conflict"
             /\ "load" \notin calls'[i]]_vars

C1_Witness ==
    \E i \in Invocations :
        /\ outcome[i] = "conflict"
        /\ existing[i] = "found"
        /\ table[TableRef(req[i])].rows > 0

\* C2: of two CREATE-mode invocations on the same table reference, the rows
\* one has loaded are never removed from the table by a later step.
C2_CreateNeverOverwrites ==
    [][\A i, j \in Invocations :
          (/\ i # j
           /\ Parsed(i) /\ Parsed(j)
           /\ IsCreate(req[i]) /\ IsCreate(req[j])
           /\ TableRef(req[i]) = TableRef(req[j])
           /\ pc[j] = "load"
           /\ table[TableRef(req[i])] # NoTable
           /\ i \in table[TableRef(req[i])].srcs)
          => i \in table'[TableRef(req[i])].srcs]_vars

C8_NoCreateAfterSuccess ==
    [][\A i \in Invocations :
          /\ ensured'[i] = "exists" => "ds_create" \notin calls'[i]
          /\ (pc[i] = "ds_create" /\ "ds_create" \in calls'[i]) => ~again[i]]_vars

\* C9: when the fifth poll still misses the dataset, ensure returns false and
\* the invocation is over: no table check, no load job, no query; no poll is
\* made beyond the fifth.
C9_ProvisioningTimeoutStops ==
    \A i \in Invocations :
        /\ pc[i] = "ds_poll" => attempt[i] < max_attempts
        /\ ensured[i] = "timeout" =>
              /\ attempt[i] = max_attempts - 1
              /\ pc[i] = "done"
              /\ outcome[i] = "ds_failed"
              /\ calls[i] \cap {"tbl_get", "load", "query"} = {}

C9_Witness == \E i \in Invocations : ensured[i] = "timeout"

ValidModes == {<<"create">>, <<"append">>}

\* C11: no load job is submitted by an invocation whose mode token is
\* neither 'create' nor 'append': the router has rejected its name.
C11_NoLoadOutsideModes ==
    \A i \in Invocations : "load" \in calls[i] => req[i].mode \in ValidModes

\* C12: an invocation whose request is malformed, because its name does not
\* decompose or because its mode is neither 'create' nor 'append', has made
\* no cloud call and constructed no client.
C12_MalformedNoCloudCall ==
    \A i \in Invocations :
        (outcome[i] = "raised" \/ (Parsed(i) /\ req[i].mode \notin ValidModes))
        => calls[i] = {}

\* C13: the run that ends as a skip (a name that does not end in ".csv")
\* returns without raising, has parsed nothing, has made no cloud call and
\* leaves every dataset and table as it was.
C13_NonCsvSilentSkip ==
    [][\A i \in Invocations :
          (/\ pc[i] \in {"idle", "done"}
           /\ outcome[i] # "skipped"
           /\ outcome'[i] = "skipped")
          => /\ pc'[i] = "done"
             /\ req'[i] = NoReq
             /\ calls'[i] = {}
             /\ dataset' = dataset
             /\ table' = table]_vars

C13_Witness ==
    \E i \in Invocations :
        /\ outcome[i] = "skipped"
        /\ \E t \in TableRefs : table[t] # NoTable

\* C20: each pass of verify_table_load is one of at most max_attempts polls;
\* a poll that sees rows ends it with success, a poll that sees none goes on
\* to the next attempt or, at the last attempt, ends it with success all the
\* same; it ends with failure only when the table is not found.
C20_VerifyLoad ==
    [][\A i \in Invocations :
          (pc[i] = "verify" /\ <<pc[i], attempt[i]>> # <<pc'[i], attempt'[i]>>)
          => LET t == table[TableRef(req[i])]
             IN  /\ attempt[i] < max_attempts
                 /\ t = NoTable => outcome'[i] = "verify_failed"
                 /\ (t # NoTable /\ t.rows > 0) => pc'[i] = "quality"
                 /\ (t # NoTable /\ t.rows = 0 /\ attempt[i] = max_attempts - 1)
                       => pc'[i] = "quality"
                 /\ (t # NoTable /\ t.rows = 0 /\ attempt[i] < max_attempts - 1)
                       => pc'[i] = "verify" /\ attempt'[i] = attempt[i] + 1
                 /\ outcome'[i] = "verify_failed" => t = NoTable]_vars

\* The fifth poll has ended with success on a table that holds no rows.
C20_Witness ==
    \E i \in Invocations :
        /\ pc[i] = "quality"
        /\ table[TableRef(req[i])].rows = 0
        /\ \A j \in Invocations \ {i} : pc[j] = "idle"

\* One step of the run of gcs_to_bq in slot i.
\* C35: whenever create_dataset_if_not_exists has reported success to an
\* invocation, the dataset is visible to the checks that invocation makes
\* next, whatever the other invocations do.
C35_SuccessMeansVisible ==
    \A i \in Invocations :
        (pc[i] \notin {"idle", "ds_get", "ds_create", "ds_poll"} /\ ensured[i] \in EnsureSuccess)
           => dataset[req[i].dataset_id] = "visible"

InvocationStep(i) ==
    \/ EnsureGet(i)
    \/ EnsureCreateOk(i)
    \/ EnsureCreateConflict(i)
    \/ EnsureCreateError(i)
    \/ EnsurePoll(i)
    \/ TableCheck(i)
    \/ \E k \in 0..MaxFileRows, ncols \in 1..MaxColumns : LoadOk(i, k, ncols)
    \/ LoadFail(i)
    \/ VerifyPoll(i)
    \/ \E queryFails \in BOOLEAN : QualityChecks(i, queryFails)

\* Every external call returns: a run that can take a step takes one.
SpecLive == Init /\ [][Next]_vars /\ \A i \in Invocations : WF_vars(InvocationStep(i))

\* C30: a run of gcs_to_bq makes at most max_attempts polls in each of its
\* two waits, goes on to another attempt (and sleeps) only before the last
\* one, and reaches its end.
C30_Terminates ==
    /\ [](\A i \in Invocations : attempt[i] <= max_attempts - 1)
    /\ \A i \in Invocations : (pc[i] \notin {"idle", "done"}) ~> (pc[i] = "done")

\* A run has ended after its five row-count polls of an empty table.
C30_Witness ==
    \E i \in Invocations :
        /\ pc[i] = "done"
        /\ "query" \in calls[i]
        /\ table[TableRef(req[i])].rows = 0
        /\ \A j \in Invocations \ {i} : pc[j] = "idle"

\* gcs_to_bq leaves through the except clause, which logs and re-raises;
\* every other outcome is a return statement.
Raises(how) == how = "raised"

\* C21: an invocation whose load job failed ends in an error outcome, as a
\* malformed request does, and has run no quality check.
C21_LoadFailureRaises ==
    \A i \in Invocations :
        outcome[i] = "load_failed" => Raises(outcome[i]) /\ "query" \notin calls[i]

\* C22: an invocation that has loaded its table and passed the checks of
\* gcs_to_bq has gone through quality analysis and the cleaning decision.
C22_LoadedThenAnalyzedAndCleaned ==
    \A i \in Invocations :
        outcome[i] = "loaded" =>
            {"analyze_table_quality", "perform_smart_cleaning"} \subseteq calls[i]


(***************************************************************************)
(* SpecRouter: the head of gcs_to_bq applied to every object name of at    *)
(* most MaxNameLen lexemes.                                                *)
(***************************************************************************)
MaxNameLen == 8
RouterLexemes == {"d", "create", "-", "_", ".csv"}

\* The event's name grows by one lexeme and gcs_to_bq is triggered with it.
Route(c) ==
    /\ Len(rname) < MaxNameLen
    /\ rname' = Append(rname, c)
    /\ routed' = RouterOutcome(rname')
    /\ UNCHANGED <<libVars, execVars, storeVars, invVars, cleanVars, inferVars>>

InvocationsIdle ==
    /\ dataset = <<>>
    /\ table = <<>>
    /\ pc = <<>>
    /\ req = <<>>
    /\ payload = <<>>
    /\ attempt = <<>>
    /\ ensured = <<>>
    /\ existing = <<>>
    /\ outcome = <<>>
    /\ calls = <<>>
    /\ again = <<>>
    /\ succeeded = <<>>

InitRouter ==
    /\ rname = <<>>
    /\ routed = NoRoute
    /\ InvocationsIdle
    /\ CleanIdle
    /\ InferIdle
    /\ LibIdle

NextRouter == \E c \in RouterLexemes : Route(c)

SpecRouter == InitRouter /\ [][NextRouter]_vars

\* {dataset}-{table}-{mode}__{file}: a first "__" exists and exactly two "-"
\* stand before it.
HasForm(name) ==
    \E at \in 1..(Len(name) - 1) :
        /\ name[at] = "_" /\ name[at + 1] = "_"
        /\ \A k \in 1..(at - 1) : ~(name[k] = "_" /\ name[k + 1] = "_")
        /\ Cardinality({k \in 1..(at - 1) : name[k] = "-"}) = 2

\* C10 as stated: every name that is not {dataset}-{table}-{mode}__{file}.csv
\* fails with the ValueError of parse_filename.
C10_NotOfFormFails ==
    (routed # NoRoute /\ ~(HasForm(rname) /\ EndsWithCsv(rname)))
    => routed.kind = "ValueError"

\* C10 as amended: every name that ends in ".csv" and is not of the form fails
\* with the ValueError; a name that does not end in ".csv" is skipped without
\* an error, and a name of the form that ends in ".csv" is parsed.
C10_CsvNotOfFormFails ==
    routed # NoRoute =>
       /\ (EndsWithCsv(rname) /\ ~HasForm(rname)) => routed.kind = "ValueError"
       /\ ~EndsWithCsv(rname) => routed.kind = "skipped"
       /\ (EndsWithCsv(rname) /\ HasForm(rname)) => routed.kind = "parsed"

C10_Witness ==
    /\ EndsWithCsv(rname)
    /\ \E k \in 1..(Len(rname) - 1) : rname[k] = "_" /\ rname[k + 1] = "_"
    /\ Cardinality({k \in 1..Len(rname) : rname[k] = "-"}) >= 3
    /\ routed.kind = "ValueError"

\* upload_csv: the name the file is uploaded under
trigger_filename(dataset_id, table_id, mode, actual_file) ==
    dataset_id \o <<"-">> \o table_id \o <<"-">> \o mode \o <<"_", "_">> \o actual_file

\* What the user of upload_csv can enter for the dataset and for the table:
\* any text, which the uploader does not check.
UploadNames ==
    {<<>>} \cup {<<a>> : a \in {"d", "-", "_"}}
           \cup {<<a, b>> : a \in {"d", "-", "_"}, b \in {"d", "-", "_"}}
\* mode after .lower(), one of the two the uploader lets through
UploadModes == {<<"create">>, <<"append">>}
\* os.path.basename(local_file)
UploadFiles == {<<".csv">>, <<"d", ".csv">>, <<"_", "_", ".csv">>}

\* C34: parse_filename gives back the dataset, the table, the mode and the
\* file name that upload_csv composed the name from, also when the dataset
\* or the table holds "-" or "__" and when the file name holds "__".
C34_RoundTrip ==
    \A dataset_id \in UploadNames, table_id \in UploadNames,
       mode \in UploadModes, actual_file \in UploadFiles :
       rname = trigger_filename(dataset_id, table_id, mode, actual_file) =>
          parse_filename(rname) =
             [kind |-> "parsed", dataset_id |-> dataset_id, table_id |-> table_id,
              mode |-> mode, actual_file |-> actual_file]


(***************************************************************************)
(* SpecClean: DataCleaner, BackupManager and DataValidator.  No code of    *)
(* the repository calls them, so their callers are the environment: each   *)
(* caller invokes the methods in any order on one table; to restore or     *)
(* clean up it passes the backup reference it holds.  Ingestion goes on    *)
(* beside them and appends rows to the table.                              *)
(***************************************************************************)
MaxTime == 1

CleanRequest == RouterOutcome(<<"d", "-", "t", "-", "append", "_", "_", "x", ".csv">>)
CleanTable == TableRef(CleanRequest)

\* backup_table_ref = f"{table_ref}_backup_{int(time.time())}"
BackupRef(table_ref, time) == <<table_ref, "_backup_", time>>
BackupRefs == {BackupRef(CleanTable, t) : t \in 0..MaxTime}

(***************************************************************************)
(* Python floats.  The percentages of the cleaner and of the validator are *)
(* computed with / and * on floats (IEEE 754 binary64, round to nearest,   *)
(* ties to even).  A float that is not negative is [bits, exp]: the        *)
(* integer whose binary digits are bits, least significant first, times    *)
(* 2^exp; zero has no digits.                                              *)
(***************************************************************************)
\* the digits of a binary64 significand
Precision == 53

FloatZero == [bits |-> <<>>, exp |-> 0]

Reverse(s) == [k \in 1..Len(s) |-> s[Len(s) + 1 - k]]

RECURSIVE NatBits(_)
NatBits(n) == IF n = 0 THEN <<>> ELSE <<n % 2>> \o NatBits(n \div 2)

BitAt(b, k) == IF k <= Len(b) THEN b[k] ELSE 0

RECURSIVE AddFrom(_, _, _, _)
AddFrom(a, b, k, carry) ==
    IF k > Len(a) /\ k > Len(b) THEN (IF carry = 1 THEN <<1>> ELSE <<>>)
    ELSE LET t == BitAt(a, k) + BitAt(b, k) + carry
         IN  <<t % 2>> \o AddFrom(a, b, k + 1, t \div 2)

AddBits(a, b) == AddFrom(a, b, 1, 0)

ShiftLeft(b, k) == IF b = <<>> THEN <<>> ELSE [j \in 1..k |-> 0] \o b

RECURSIVE MulFrom(_, _, _)
MulFrom(a, c, k) ==
    IF k > Len(c) THEN <<>>
    ELSE AddBits(IF c[k] = 1 THEN ShiftLeft(a, k - 1) ELSE <<>>, MulFrom(a, c, k + 1))

\* -1, 0, 1 as a is below, equal to, above b; neither has a leading zero
CmpBits(a, b) ==
    IF Len(a) # Len(b) THEN (IF Len(a) < Len(b) THEN -1 ELSE 1)
    ELSE LET differ == {k \in 1..Len(a) : a[k] # b[k]}
         IN  IF differ = {} THEN 0
             ELSE LET top == CHOOSE k \in differ : \A m \in differ : m <= k
                  IN  IF a[top] < b[top] THEN -1 ELSE 1

\* Rounding of an exact result to Precision digits, ties to even.
RoundBits(bits, exp) ==
    LET n == Len(bits) - Precision
    IN  IF n <= 0 THEN [bits |-> bits, exp |-> exp]
        ELSE LET kept == SubSeq(bits, n + 1, Len(bits))
                 sticky == \E k \in 1..(n - 1) : bits[k] = 1
                 up == bits[n] = 1 /\ (sticky \/ kept[1] = 1)
             IN  [bits |-> IF up THEN AddBits(kept, <<1>>) ELSE kept, exp |-> exp + n]

\* Long division r / b continued until Precision + 1 digits stand in acc
\* (most significant first) or the division comes out even.
RECURSIVE DivDigits(_, _, _, _)
DivDigits(r, b, acc, frac) ==
    IF r = 0 \/ Len(acc) > Precision THEN [digits |-> acc, frac |-> frac, rem |-> r]
    ELSE LET d == IF 2 * r >= b THEN 1 ELSE 0
         IN  DivDigits(2 * r - d * b, b,
                       IF acc = <<>> /\ d = 0 THEN acc ELSE Append(acc, d), frac + 1)

\* a / b for ints a >= 0, b > 0
TrueDiv(a, b) ==
    IF a = 0 THEN FloatZero
    ELSE LET q == DivDigits(a % b, b, Reverse(NatBits(a \div b)), 0)
             inexact == IF q.rem = 0 THEN 0 ELSE 1
         IN  RoundBits(<<inexact>> \o Reverse(q.digits), -q.frac - 1)

\* x * c for a float x and an int c >= 0
FloatTimes(x, c) ==
    IF x.bits = <<>> \/ c = 0 THEN FloatZero
    ELSE RoundBits(MulFrom(x.bits, NatBits(c), 1), x.exp)

\* x + y
FloatAdd(x, y) ==
    IF x.bits = <<>> THEN y
    ELSE IF y.bits = <<>> THEN x
    ELSE LET e == IF x.exp <= y.exp THEN x.exp ELSE y.exp
         IN  RoundBits(AddBits(ShiftLeft(x.bits, x.exp - e), ShiftLeft(y.bits, y.exp - e)), e)

\* -1, 0, 1 as the float x is below, equal to, above the int c >= 0
FloatCmp(x, c) ==
    IF x.exp >= 0 THEN CmpBits(ShiftLeft(x.bits, x.exp), NatBits(c))
    ELSE CmpBits(x.bits, ShiftLeft(NatBits(c), -x.exp))

\* x < y for floats
FloatLess(x, y) ==
    LET e == IF x.exp <= y.exp THEN x.exp ELSE y.exp
    IN  CmpBits(ShiftLeft(x.bits, x.exp - e), ShiftLeft(y.bits, y.exp - e)) < 0

\* _get_default_config
DefaultConfig ==
    [max_empty_percentage |-> 50, min_issue_percentage |-> 1,
     operations |-> {"trim", "nullify_empty", "nullify_whitespace"}]

\* (count / total_rows) * 100
Percentage(count, total_rows) == FloatTimes(TrueDiv(count, total_rows), 100)

\* FieldOperations that does not consult config['operations'].
FieldOperationsUnconfigured(stats, config) ==
    IF stats.total_rows = 0 THEN <<>>
    ELSE LET empty_pct == Percentage(stats.empty_string_count, stats.total_rows)
             whitespace_pct == Percentage(stats.whitespace_only_count, stats.total_rows)
             total_issues_pct == FloatAdd(empty_pct, whitespace_pct)
         IN  IF /\ FloatCmp(total_issues_pct, config.min_issue_percentage) >= 0
                /\ FloatCmp(total_issues_pct, config.max_empty_percentage) <= 0
             THEN <<"TRIM">>
                  \o (IF FloatCmp(empty_pct, config.max_empty_percentage) < 0
                      THEN <<"NULLIF_EMPTY">> ELSE <<>>)
                  \o (IF FloatCmp(whitespace_pct, config.max_empty_percentage) < 0
                      THEN <<"NULLIF_WHITESPACE">> ELSE <<>>)
             ELSE <<>>

\* The body of the loop of _determine_cleaning_operations for one field:
\* the operations planned for it, <<>> when it is left alone.
FieldOperations(stats, config) ==
    IF stats.total_rows = 0 THEN <<>>
    ELSE LET empty_pct == Percentage(stats.empty_string_count, stats.total_rows)
             whitespace_pct == Percentage(stats.whitespace_only_count, stats.total_rows)
             total_issues_pct == FloatAdd(empty_pct, whitespace_pct)
         IN  IF /\ FloatCmp(total_issues_pct, config.min_issue_percentage) >= 0
                /\ FloatCmp(total_issues_pct, config.max_empty_percentage) <= 0
             THEN (IF "trim" \in config.operations THEN <<"TRIM">> ELSE <<>>)
                  \o (IF /\ "nullify_empty" \in config.operations
                         /\ FloatCmp(empty_pct, config.max_empty_percentage) < 0
                      THEN <<"NULLIF_EMPTY">> ELSE <<>>)
                  \o (IF /\ "nullify_whitespace" \in config.operations
                         /\ FloatCmp(whitespace_pct, config.max_empty_percentage) < 0
                      THEN <<"NULLIF_WHITESPACE">> ELSE <<>>)
             ELSE <<>>

\* _determine_cleaning_operations: one entry per field that has operations.
RECURSIVE determine_cleaning_operations(_, _, _)
determine_cleaning_operations(fields, quality_report, config) ==
    IF fields = <<>> THEN <<>>
    ELSE LET field == Head(fields)
             stats == IF field \in DOMAIN quality_report
                      THEN quality_report[field] ELSE NoStats
             ops == FieldOperations(stats, config)
         IN  (IF ops = <<>> THEN <<>> ELSE <<[field |-> field, operations |-> ops]>>)
             \o determine_cleaning_operations(Tail(fields), quality_report, config)

\* The quality reports the callers pass for the fields <<"c1">>.
CleanFields == <<"c1">>
CleanReports ==
    { [c1 |-> [total_rows |-> 100, empty_string_count |-> 0, whitespace_only_count |-> 0]],
      [c1 |-> [total_rows |-> 100, empty_string_count |-> 6, whitespace_only_count |-> 1]],
      [c1 |-> [total_rows |-> 100, empty_string_count |-> 60, whitespace_only_count |-> 0]] }

\* change_pct > tolerance_pct, for change_pct = abs(row_count_change) / original_row_count * 100
ExceedsTolerance(magnitude, original_row_count, tolerance_pct) ==
    FloatCmp(Percentage(magnitude, original_row_count), tolerance_pct) > 0

\* ExceedsTolerance at the default tolerance_pct, computed once for the row
\* counts the table of the cleaning callers can have.
ExceedsDefault ==
    [magnitude \in 1..MaxTableRows, original_row_count \in 1..MaxTableRows |->
        ExceedsTolerance(magnitude, original_row_count, 1)]

\* validate_cleaning_results: queryFails is the query raising; a zero
\* original count with a changed row count raises ZeroDivisionError inside.
validate_cleaning_results(t, original_row_count, tolerance_pct, queryFails) ==
    IF queryFails \/ t = NoTable THEN FALSE
    ELSE LET row_count_change == t.rows - original_row_count
             magnitude == IF row_count_change < 0 THEN -row_count_change
                          ELSE row_count_change
         IN  IF row_count_change = 0 THEN TRUE
             ELSE IF original_row_count = 0 THEN FALSE
             ELSE ~(IF tolerance_pct = 1 /\ <<magnitude, original_row_count>> \in DOMAIN ExceedsDefault
                    THEN ExceedsDefault[magnitude, original_row_count]
                    ELSE ExceedsTolerance(magnitude, original_row_count, tolerance_pct))

\* CREATE TABLE backup AS SELECT * FROM table
BackupContent(t) == t

\* RestoredContent as INSERT INTO table SELECT * FROM backup.
RestoredByInsert(old, backup) ==
    IF old = NoTable THEN backup ELSE [backup EXCEPT !.rows = old.rows + backup.rows]

\* CREATE OR REPLACE TABLE table AS SELECT * FROM backup
RestoredContent(old, backup) == backup

Rows(t) == IF t = NoTable THEN 0 ELSE t.rows
Call(op, i, ret) == last' = [op |-> op, by |-> i, ret |-> ret, was |-> Rows(table[CleanTable])]

Tick ==
    /\ now < MaxTime
    /\ now' = now + 1
    /\ UNCHANGED <<libVars, execVars, storeVars, invVars, routerVars, inferVars, backups, held, live, snap, phase, last>>

\* BackupManager.create_backup(table_ref)
CreateBackup(i, queryFails) ==
    LET ref == BackupRef(CleanTable, now)
        ok == ~queryFails /\ table[CleanTable] # NoTable /\ backups[ref] = NoTable
    IN  /\ Call("create_backup", i, ok)
        /\ IF ok
           THEN /\ backups' = [backups EXCEPT ![ref] = BackupContent(table[CleanTable])]
                /\ held' = [held EXCEPT ![i] = ref]
                /\ live' = [live EXCEPT ![i] = TRUE]
                /\ snap' = [snap EXCEPT ![i] = table[CleanTable]]
                /\ phase' = [phase EXCEPT ![i] = "fresh"]
           ELSE /\ live' = [live EXCEPT ![i] = FALSE]
                /\ snap' = [snap EXCEPT ![i] = NoTable]
                /\ UNCHANGED <<backups, held, phase>>
        /\ UNCHANGED <<libVars, execVars, storeVars, invVars, routerVars, inferVars, now>>

\* _determine_cleaning_operations with the default config, computed once for
\* each of the reports the callers pass.
DefaultPlans ==
    [quality_report \in CleanReports |->
        determine_cleaning_operations(CleanFields, quality_report, DefaultConfig)]

\* DataCleaner.perform_smart_cleaning(table_ref, fields, quality_report) with
\* the default config; _execute_cleaning_operations issues the bulk UPDATE.
SmartCleaning(i, quality_report, queryFails) ==
    LET cleaning_operations == DefaultPlans[quality_report]
        ok == ~queryFails /\ table[CleanTable] # NoTable
    IN  /\ IF cleaning_operations = <<>>
           THEN /\ Call("no_cleaning", i, TRUE)
                /\ UNCHANGED <<table, phase>>
           ELSE /\ Call("update", i, ok)
                /\ IF ok
                   THEN /\ table' = [table EXCEPT ![CleanTable].raw = FALSE]
                        /\ phase' = [phase EXCEPT ![i] = "updated"]
                   ELSE UNCHANGED <<table, phase>>
        /\ UNCHANGED <<libVars, execVars, dataset, invVars, routerVars, inferVars, backups, now, held, live, snap>>

\* DataValidator.validate_cleaning_results(table_ref, original_row_count)
Validate(i, original_row_count, queryFails) ==
    LET ok == validate_cleaning_results(table[CleanTable], original_row_count, 1, queryFails)
    IN  /\ Call("validate", i, ok)
        /\ phase' = [phase EXCEPT ![i] =
                       IF @ = "fresh" THEN @ ELSE IF ok THEN "valid" ELSE "invalid"]
        /\ UNCHANGED <<libVars, execVars, storeVars, invVars, routerVars, inferVars, backups, now, held, live, snap>>

\* BackupManager.restore_from_backup(table_ref, backup_ref)
Restore(i, queryFails) ==
    LET ok == ~queryFails /\ backups[held[i]] # NoTable
    IN  /\ live[i]
        /\ Call("restore", i, ok)
        /\ table' = IF ok
                    THEN [table EXCEPT ![CleanTable] = RestoredContent(@, backups[held[i]])]
                    ELSE table
        /\ UNCHANGED <<libVars, execVars, dataset, invVars, routerVars, inferVars, backups, now, held, live, snap, phase>>

\* BackupManager.cleanup_backup(backup_ref)
Cleanup(i, deleteFails) ==
    LET ok == ~deleteFails /\ backups[held[i]] # NoTable
    IN  /\ live[i]
        /\ Call("cleanup", i, ok)
        /\ IF ok
           THEN /\ backups' = [backups EXCEPT ![held[i]] = NoTable]
                /\ live' = [live EXCEPT ![i] = FALSE]
                /\ snap' = [snap EXCEPT ![i] = NoTable]
           ELSE UNCHANGED <<backups, live, snap>>
        /\ UNCHANGED <<libVars, execVars, storeVars, invVars, routerVars, inferVars, now, held, phase>>

\* A gcs_to_bq invocation in append mode loads one more row into the table.
AppendLoad ==
    /\ LoadAccepted(table[CleanTable], CleanRequest, 1, table[CleanTable].ncols)
    /\ Call("load", 0, TRUE)
    /\ table' = [table EXCEPT ![CleanTable] = Loaded(@, 0, CleanRequest, 1, @.ncols)]
    /\ UNCHANGED <<libVars, execVars, dataset, invVars, routerVars, inferVars, backups, now, held, live, snap, phase>>

InitClean ==
    /\ dataset = [d \in {CleanTable[1]} |-> "visible"]
    /\ table \in [{CleanTable} ->
                     [rows : {1}, srcs : {{0}}, ncols : 1..MaxColumns, raw : {TRUE}]]
    /\ InitInvocations
    /\ RouterIdle
    /\ backups = [r \in BackupRefs |-> NoTable]
    /\ now = 0
    /\ held = [i \in Invocations |-> NoRef]
    /\ live = [i \in Invocations |-> FALSE]
    /\ snap = [i \in Invocations |-> NoTable]
    /\ phase = [i \in Invocations |-> "fresh"]
    /\ last = NoCall
    /\ InferIdle
    /\ LibIdle

NextClean ==
    \/ Tick
    \/ AppendLoad
    \/ \E i \in Invocations, f \in BOOLEAN : CreateBackup(i, f)
    \/ \E i \in Invocations, q \in CleanReports, f \in BOOLEAN : SmartCleaning(i, q, f)
    \/ \E i \in Invocations, n \in 0..MaxTableRows, f \in BOOLEAN : Validate(i, n, f)
    \/ \E i \in Invocations, f \in BOOLEAN : Restore(i, f)
    \/ \E i \in Invocations, f \in BOOLEAN : Cleanup(i, f)

SpecClean == InitClean /\ [][NextClean]_vars

\* C3: the bulk UPDATE is issued only by a caller that holds a backup
\* reference create_backup returned for the table.
C3_UpdateOnlyAfterBackup == last.op = "update" => live[last.by]

\* C4: after an UPDATE made under a backup, cleanup_backup is called, and
\* the backup deleted, only once validate_cleaning_results has returned true.
C4_CleanupOnlyAfterValidation ==
    (last.op = "cleanup" /\ phase[last.by] # "fresh") => phase[last.by] = "valid"

\* C5: a successful restore_from_backup from the reference create_backup
\* returned leaves the table with the row count and the columns it had when
\* the backup was taken.
C5_RestoreRoundTrip ==
    (last.op = "restore" /\ last.ret) =>
       /\ table[CleanTable] # NoTable
       /\ table[CleanTable].rows = snap[last.by].rows
       /\ table[CleanTable].ncols = snap[last.by].ncols

C5_Witness ==
    /\ last.op = "restore" /\ last.ret
    /\ phase[last.by] # "fresh"
    /\ last.was # table[CleanTable].rows

\* C6: the references create_backup has returned to different invocations
\* are different.
C6_BackupRefsDistinct ==
    \A i, j \in Invocations : (i # j /\ held[i] # NoRef) => held[i] # held[j]


(***************************************************************************)
(* SpecNames: clean_column applied to every header cell of at most         *)
(* MaxColNameLen characters.                                               *)
(***************************************************************************)
MaxColNameLen == 4
NameChars == {"a", "B", "1", "_", " "}

\* The characters of NameChars that [a-zA-Z0-9_] matches.
WordChars == {"a", "B", "1", "_"}

\* re.sub(r'[^a-zA-Z0-9_]', '_', name)
SubNonWord(name) == [k \in 1..Len(name) |-> IF name[k] \in WordChars THEN name[k] ELSE "_"]

\* str.strip('_')
StripUnderscores(s) ==
    LET keep == {k \in 1..Len(s) : s[k] # "_"}
    IN  IF keep = {} THEN <<>>
        ELSE LET lo == CHOOSE k \in keep : \A m \in keep : k <= m
                 hi == CHOOSE k \in keep : \A m \in keep : m <= k
             IN  SubSeq(s, lo, hi)

\* str.lower()
LowerChar(c) == IF c = "B" THEN "b" ELSE c
LowerStr(s) == [k \in 1..Len(s) |-> LowerChar(s[k])]

\* clean_column with the characters outside the class removed.
clean_column_removing(name) ==
    LowerStr(StripUnderscores(SelectSeq(name, LAMBDA c : c \in WordChars)))

\* clean_column
clean_column(name) == LowerStr(StripUnderscores(SubNonWord(name)))

\* The header cell grows by one character and clean_column is applied to it.
GrowName(c) ==
    /\ Len(col_name) < MaxColNameLen
    /\ col_name' = Append(col_name, c)
    /\ clean_name' = clean_column(col_name')
    /\ UNCHANGED <<libVars, execVars, storeVars, invVars, routerVars, cleanVars,
                   col_values, col_type, raw_header, rows, inferred>>

InitNames == InvocationsIdle /\ RouterIdle /\ CleanIdle /\ InferIdle /\ LibIdle

NextNames == \E c \in NameChars : GrowName(c)

SpecNames == InitNames /\ [][NextNames]_vars

\* C19 as stated: the result is the input with the characters outside
\* [A-Za-z0-9_] left out, the underscores at both ends trimmed and the
\* letters lowercased.
C19_OutsideCharsStripped ==
    LET kept == SelectSeq(col_name, LAMBDA c : c \in WordChars)
        ends == {k \in 1..Len(kept) : kept[k] # "_"}
    IN  /\ Len(clean_name) = Cardinality(ends)
                              + Cardinality({k \in 1..Len(kept) :
                                   /\ kept[k] = "_"
                                   /\ \E a \in ends : a < k
                                   /\ \E b \in ends : k < b})
        /\ \A k \in 1..Len(clean_name) : clean_name[k] \in {"a", "b", "1", "_"}

\* C19 as amended: every character outside [A-Za-z0-9_] is replaced by an
\* underscore, the underscores at both ends are trimmed and the letters are
\* lowercased: the result is a window of the input, character for character,
\* with nothing but underscores and replaced characters outside the window;
\* it holds only [a-z0-9_] and neither starts nor ends with an underscore.
C19_OutsideCharsReplaced ==
    LET norm(c) == IF c = "B" THEN "b" ELSE IF c \in {"a", "1"} THEN c ELSE "_"
        n == Len(clean_name)
    IN  /\ \A k \in 1..n : clean_name[k] \in {"a", "b", "1", "_"}
        /\ n > 0 => clean_name[1] # "_" /\ clean_name[n] # "_"
        /\ \E off \in 0..(Len(col_name) - n) :
              /\ \A k \in 1..n : clean_name[k] = norm(col_name[off + k])
              /\ \A k \in 1..Len(col_name) :
                    (k <= off \/ k > off + n) => norm(col_name[k]) = "_"

C19_Witness ==
    /\ Len(col_name) = MaxColNameLen
    /\ col_name[1] = "_"
    /\ col_name[3] = " "
    /\ clean_name = <<"b", "_", "a">>


(***************************************************************************)
(* SpecType: detect_column_type applied to every column of at most         *)
(* MaxSampleLen cells drawn from CellValues.  A cell is the sequence of    *)
(* its characters.                                                         *)
(***************************************************************************)
MaxSampleLen == 3

CellValues ==
    { <<>>, <<" ">>,
      <<"0">>, <<"1">>, <<"t", "r", "u", "e">>, <<"F", "a", "l", "s", "e">>,
      <<"Y", "e", "s">>,
      <<"0", "7", "0", "0">>, <<"0", "0", "7">>, <<"0", "4", "2">>,
      <<"3">>, <<"6">>, <<" ", "6">>, <<"4", ".", "5">>, <<"1", "e", "5">>,
      <<"a", "b">> }

Digits == {"0", "1", "2", "3", "4", "5", "6", "7", "8", "9"}

\* str.strip()
StripSpaces(s) ==
    LET keep == {k \in 1..Len(s) : s[k] # " "}
    IN  IF keep = {} THEN <<>>
        ELSE LET lo == CHOOSE k \in keep : \A m \in keep : k <= m
                 hi == CHOOSE k \in keep : \A m \in keep : m <= k
             IN  SubSeq(s, lo, hi)

\* re.IGNORECASE on the letters the cells use
FoldCase(s) ==
    [k \in 1..Len(s) |-> IF s[k] = "F" THEN "f" ELSE IF s[k] = "Y" THEN "y" ELSE s[k]]

\* ^(true|false|yes|no|t|f|y|n|0|1)$
BoolWords ==
    { <<"t", "r", "u", "e">>, <<"f", "a", "l", "s", "e">>, <<"y", "e", "s">>,
      <<"n", "o">>, <<"t">>, <<"f">>, <<"y">>, <<"n">>, <<"0">>, <<"1">> }
bool_pattern_match(v) == FoldCase(v) \in BoolWords

IsDigits(s) == Len(s) > 0 /\ \A k \in 1..Len(s) : s[k] \in Digits
Unsigned(v) == IF Len(v) > 0 /\ v[1] \in {"+", "-"} THEN Tail(v) ELSE v

\* int(v) does not raise ValueError
ParsesInt(v) == IsDigits(Unsigned(v))

\* float(v) does not raise ValueError: digits with at most one point and
\* an optional exponent
ParsesFloat(v) ==
    LET u == Unsigned(v)
        es == {k \in 1..Len(u) : u[k] \in {"e", "E"}}
        cut == IF es = {} THEN Len(u) + 1 ELSE CHOOSE k \in es : \A m \in es : k <= m
        mant == SubSeq(u, 1, cut - 1)
        expo == SubSeq(u, cut + 1, Len(u))
        dots == {k \in 1..Len(mant) : mant[k] = "."}
        whole == SelectSeq(mant, LAMBDA c : c # ".")
    IN  /\ Cardinality(dots) <= 1
        /\ IsDigits(whole)
        /\ es # {} => IsDigits(Unsigned(expo))

HasPoint(v) == \E k \in 1..Len(v) : v[k] = "."

\* The counting loops of detect_column_type: the number of values counted
\* before the first one that breaks out of the loop; passes[k] tells whether
\* the k-th value is counted.
CountUntilBreak(passes) ==
    LET breaks == {k \in 1..Len(passes) : ~passes[k]}
    IN  IF breaks = {} THEN Len(passes)
        ELSE (CHOOSE k \in breaks : \A m \in breaks : k <= m) - 1

\* non_null = [str(v).strip() for v in values if v not in [None, '']]
NonNull(values) ==
    LET kept == SelectSeq(values, LAMBDA v : v # <<>>)
    IN  [k \in 1..Len(kept) |-> StripSpaces(kept[k])]

\* detect_column_type with the integer test made before the boolean test.
detect_column_type_int_first(values) ==
    LET non_null == NonNull(values)
        int_count == CountUntilBreak([k \in 1..Len(non_null) |->
                                        ~HasPoint(non_null[k]) /\ ParsesInt(non_null[k])])
        float_count == CountUntilBreak([k \in 1..Len(non_null) |-> ParsesFloat(non_null[k])])
    IN  IF values = <<>> THEN "STRING"
        ELSE IF non_null = <<>> THEN "STRING"
        ELSE IF int_count = Len(non_null) THEN "INT64"
        ELSE IF \A k \in 1..Len(non_null) : bool_pattern_match(non_null[k]) THEN "BOOLEAN"
        ELSE IF float_count = Len(non_null) THEN "FLOAT64"
        ELSE "STRING"

\* detect_column_type
detect_column_type(values) ==
    LET non_null == NonNull(values)
        int_count == CountUntilBreak([k \in 1..Len(non_null) |->
                                        ~HasPoint(non_null[k]) /\ ParsesInt(non_null[k])])
        float_count == CountUntilBreak([k \in 1..Len(non_null) |-> ParsesFloat(non_null[k])])
    IN  IF values = <<>> THEN "STRING"
        ELSE IF non_null = <<>> THEN "STRING"
        ELSE IF \A k \in 1..Len(non_null) : bool_pattern_match(non_null[k]) THEN "BOOLEAN"
        ELSE IF int_count = Len(non_null) THEN "INT64"
        ELSE IF float_count = Len(non_null) THEN "FLOAT64"
        ELSE "STRING"

\* One more cell is sampled into the column and the column is classified.
GrowColumn(v) ==
    /\ Len(col_values) < MaxSampleLen
    /\ col_values' = Append(col_values, v)
    /\ col_type' = detect_column_type(col_values')
    /\ UNCHANGED <<libVars, execVars, storeVars, invVars, routerVars, cleanVars,
                   col_name, clean_name, raw_header, rows, inferred>>

InitType == InvocationsIdle /\ RouterIdle /\ CleanIdle /\ InferIdle /\ LibIdle

NextType == \E v \in CellValues : GrowColumn(v)

SpecType == InitType /\ [][NextType]_vars

\* The classifier as the specification words it: over the cells that are not
\* empty (null or blank), BOOLEAN if all are in the lexical set, else INT64
\* if all parse as integers and hold no point, else FLOAT64 if all parse as
\* floats, else STRING; STRING when no cell is left.
ReferenceType(values) ==
    LET cells == {StripSpaces(values[k]) : k \in 1..Len(values)} \ {<<>>}
    IN  IF cells = {} THEN "STRING"
        ELSE IF \A v \in cells : FoldCase(v) \in BoolWords THEN "BOOLEAN"
        ELSE IF \A v \in cells : ParsesInt(v) /\ ~HasPoint(v) THEN "INT64"
        ELSE IF \A v \in cells : ParsesFloat(v) THEN "FLOAT64"
        ELSE "STRING"

\* C14: detect_column_type gives every column the type of the reference
\* classifier.
C14_EqualsReference ==
    col_type # "none" => col_type = ReferenceType(col_values)

FiveLiterals ==
    { <<"t", "r", "u", "e">>, <<"F", "a", "l", "s", "e">>, <<"Y", "e", "s">>,
      <<"0">>, <<"1">> }

\* C15: a column whose every cell is one of "true", "False", "Yes", "0", "1"
\* is BOOLEAN.
C15_FiveLiteralsBoolean ==
    (/\ col_values # <<>>
     /\ \A k \in 1..Len(col_values) : col_values[k] \in FiveLiterals)
    => col_type = "BOOLEAN"

C15_Witness ==
    /\ col_type = "BOOLEAN"
    /\ Len(col_values) = 2
    /\ \A k \in 1..Len(col_values) : col_values[k] \in {<<"0">>, <<"1">>}
    /\ col_values[1] # col_values[2]

\* C16: a column whose cells that are not empty all parse as numbers, one of
\* them written with a decimal point, is FLOAT64.
C16_DecimalPointFloat ==
    LET filled == {k \in 1..Len(col_values) : StripSpaces(col_values[k]) # <<>>}
    IN  (/\ filled # {}
         /\ \A k \in filled : ParsesFloat(StripSpaces(col_values[k]))
         /\ \E k \in filled : HasPoint(col_values[k]))
        => col_type = "FLOAT64"


(***************************************************************************)
(* SpecSchema: process_csv_schema applied to a payload: a header line and  *)
(* the lines after it, each line the sequence of its cells as csv.reader   *)
(* yields it (<<>> for an empty line).                                     *)
(***************************************************************************)
\* sample_size (100 in the source) at the scale of the model's payloads
MaxSample == 2
MaxLines == 3

HeaderLines ==
    { <<>>,
      <<<<"a">>>>,
      <<<<"a">>, <<"B">>>>,
      <<<<"a">>, <<"a", " ">>>> }

PayloadLines ==
    { <<>>,
      <<<<" ">>, <<>>>>,
      <<<<"1">>>>,
      <<<<"1">>, <<"4", ".", "5">>>>,
      <<<<"a", "b">>, <<"1">>>>,
      <<<<"0">>, <<"a", "b">>, <<"1">>>> }

\* any(field.strip() for field in row)
UsableRow(row) == \E k \in 1..Len(row) : StripSpaces(row[k]) # <<>>

Min(a, b) == IF a <= b THEN a ELSE b

\* The loop of process_csv_schema over range(sample_size): each pass takes
\* the next line, and keeps it when it is not blank.
SampleRows(lines, sample_size) ==
    SelectSeq(SubSeq(lines, 1, Min(Len(lines), sample_size)), UsableRow)

\* list(zip(*sample_rows)): as many columns as the shortest row has cells
Transpose(sample_rows) ==
    LET widths == {Len(sample_rows[r]) : r \in 1..Len(sample_rows)}
        width == CHOOSE n \in widths : \A m \in widths : n <= m
    IN  [c \in 1..width |-> [r \in 1..Len(sample_rows) |-> sample_rows[r][c]]]

NoneSchema == [kind |-> "None"]

\* process_csv_schema once the blob is read: None, or clean_fields, schema
\* and type_report
process_csv_schema(header, lines, sample_size) ==
    LET sample_rows == SampleRows(lines, sample_size)
    IN  IF sample_rows = <<>> THEN NoneSchema
        ELSE LET columns == Transpose(sample_rows)
                 n == Min(Len(header), Len(columns))
                 clean_fields == [c \in 1..n |-> clean_column(header[c])]
                 schema == [c \in 1..n |->
                               [name |-> clean_fields[c],
                                field_type |-> detect_column_type(columns[c])]]
                 names == {clean_fields[c] : c \in 1..n}
                 latest(nm) == CHOOSE c \in 1..n :
                                  /\ clean_fields[c] = nm
                                  /\ \A d \in 1..n : clean_fields[d] = nm => d <= c
             IN  [kind |-> "schema",
                  clean_fields |-> clean_fields,
                  schema |-> schema,
                  type_report |-> [nm \in names |-> schema[latest(nm)].field_type]]

\* The payload has one more line; process_csv_schema is applied to it.
AppendLine(row) ==
    /\ Len(rows) < MaxLines
    /\ rows' = Append(rows, row)
    /\ inferred' = process_csv_schema(raw_header, rows', MaxSample)
    /\ UNCHANGED <<libVars, execVars, storeVars, invVars, routerVars, cleanVars,
                   col_name, clean_name, col_values, col_type, raw_header>>

InitSchema ==
    /\ InvocationsIdle
    /\ RouterIdle
    /\ CleanIdle
    /\ LibIdle
    /\ col_name = <<>>
    /\ clean_name = <<>>
    /\ col_values = <<>>
    /\ col_type = "none"
    /\ raw_header \in HeaderLines
    /\ rows = <<>>
    /\ inferred = process_csv_schema(raw_header, rows, MaxSample)

NextSchema == \E row \in PayloadLines : AppendLine(row)

SpecSchema == InitSchema /\ [][NextSchema]_vars

\* C17: inference fails exactly when the sampled lines hold no usable row,
\* and it does not fail for a payload that holds a usable row.
C17_UsablePayloadInfers ==
    /\ inferred = NoneSchema <=> SampleRows(rows, MaxSample) = <<>>
    /\ (\E k \in 1..Len(rows) : UsableRow(rows[k])) => inferred # NoneSchema

\* C18: there is one ColumnSchema per header cell, in the order of the
\* header, and one entry of the report per ColumnSchema.
C18_OnePerHeaderColumn ==
    inferred # NoneSchema =>
       /\ Len(inferred.schema) = Len(raw_header)
       /\ \A c \in 1..Len(inferred.schema) :
             inferred.schema[c].name = clean_column(raw_header[c])
       /\ Cardinality(DOMAIN inferred.type_report) = Len(inferred.schema)

(***************************************************************************)
(* SpecPlan: _determine_cleaning_operations applied to the statistics of   *)
(* one column under one configuration.                                     *)
(***************************************************************************)
PlanTotals == {22, 100, 1000}
PlanCounts == {0, 1, 2, 5, 9, 10, 11, 50, 60}

\* quality_report[field]: of total_rows values, so many are empty strings
\* and so many others are whitespace only
PlanStats ==
    {st \in [total_rows : PlanTotals, empty_string_count : PlanCounts,
             whitespace_only_count : PlanCounts] :
        st.empty_string_count + st.whitespace_only_count <= st.total_rows}

\* the default bounds, with any of the operations enabled
PlanConfigs ==
    [max_empty_percentage : {DefaultConfig.max_empty_percentage},
     min_issue_percentage : {DefaultConfig.min_issue_percentage},
     operations : SUBSET DefaultConfig.operations]

\* the operations in the order _determine_cleaning_operations appends them
OperationOrder == <<"TRIM", "NULLIF_EMPTY", "NULLIF_WHITESPACE">>

\* _execute_cleaning_operations: the SQL wrappers put around the field,
\* innermost first.
FieldExpr(operations) ==
    LET has(op) == \E k \in 1..Len(operations) : operations[k] = op
    IN  (IF has("TRIM") THEN <<"TRIM(.)">> ELSE <<>>)
        \o (IF has("NULLIF_EMPTY") THEN <<"NULLIF(., '')">> ELSE <<>>)
        \o (IF has("NULLIF_WHITESPACE") THEN <<"CASE WHEN REGEXP_CONTAINS(., ^\\s+$) THEN NULL ELSE . END">>
            ELSE <<>>)

\* DataCleaner._determine_cleaning_operations([field], {field: stats}, config)
DetermineOperations(stats, config) ==
    /\ cleaning_plan = NoPlan
    /\ field_stats' = stats
    /\ cleaner_config' = config
    /\ cleaning_plan' = determine_cleaning_operations(CleanFields, [c1 |-> stats], config)
    /\ UNCHANGED <<storeVars, invVars, routerVars, cleanVars, inferVars,
                   validation, copies, copy_run, analysis, report, column_queries, execVars>>

InitPlan == InvocationsIdle /\ RouterIdle /\ CleanIdle /\ InferIdle /\ LibIdle

NextPlan == \E stats \in PlanStats, config \in PlanConfigs : DetermineOperations(stats, config)

SpecPlan == InitPlan /\ [][NextPlan]_vars

\* C23: with trimming enabled, the column is in the cleaning plan exactly
\* when min_issue_pct <= issue_pct <= max_issue_pct for issue_pct the
\* percentage of empty and whitespace-only values: both bounds are
\* inclusive and a column without issues is left out.
C23_InclusiveBounds ==
    (cleaning_plan # NoPlan /\ "trim" \in cleaner_config.operations) =>
       LET issues == field_stats.empty_string_count + field_stats.whitespace_only_count
       IN  cleaning_plan # <<>> <=>
              /\ cleaner_config.min_issue_percentage * field_stats.total_rows <= issues * 100
              /\ issues * 100 <= cleaner_config.max_empty_percentage * field_stats.total_rows

\* C24: the operations planned for a column are taken from TRIM,
\* NULLIF_EMPTY, NULLIF_WHITESPACE in that order, and so are the SQL
\* wrappers built from them; each is there only if the configuration
\* enables it and, for the two NULLIFs, only if the percentage of its own
\* kind of value is below the upper bound; under the default configuration
\* 60 empty and 5 whitespace-only values of 1000 get all three.
C24_OperationsInFixedOrder ==
    cleaning_plan # NoPlan =>
       /\ \A e \in 1..Len(cleaning_plan) :
             LET ops == cleaning_plan[e].operations
                 at(op) == {k \in 1..Len(ops) : ops[k] = op}
                 most == cleaner_config.max_empty_percentage * field_stats.total_rows
             IN  /\ \E keep \in SUBSET (1..Len(OperationOrder)) :
                       ops = SelectSeq(OperationOrder, LAMBDA op :
                                \E k \in keep : OperationOrder[k] = op)
                 /\ Len(FieldExpr(ops)) = Len(ops)
                 /\ at("TRIM") # {} => "trim" \in cleaner_config.operations
                 /\ at("NULLIF_EMPTY") # {} =>
                       /\ "nullify_empty" \in cleaner_config.operations
                       /\ field_stats.empty_string_count * 100 < most
                 /\ at("NULLIF_WHITESPACE") # {} =>
                       /\ "nullify_whitespace" \in cleaner_config.operations
                       /\ field_stats.whitespace_only_count * 100 < most
       /\ (/\ field_stats = [total_rows |-> 1000, empty_string_count |-> 60,
                             whitespace_only_count |-> 5]
           /\ cleaner_config = DefaultConfig) =>
              cleaning_plan = <<[field |-> "c1", operations |-> OperationOrder]>>

C24_Witness ==
    /\ field_stats = [total_rows |-> 1000, empty_string_count |-> 60, whitespace_only_count |-> 5]
    /\ cleaner_config = DefaultConfig
    /\ cleaning_plan = <<[field |-> "c1", operations |-> OperationOrder]>>

(***************************************************************************)
(* SpecValid: validate_cleaning_results applied to one table and one       *)
(* original row count.                                                     *)
(***************************************************************************)
ValidOriginals == {0, 50, 100, 1000}
ValidChanges == -8..8
ValidTolerances == {1, 7}

\* DataValidator.validate_cleaning_results(table_ref, original_row_count, tolerance_pct)
\* on a table of current_row_count rows
RunValidation(original_row_count, current_row_count, tolerance_pct, queryFails) ==
    /\ validation = NoValidation
    /\ integrity = NoIntegrity
    /\ validation' =
          [original_row_count |-> original_row_count,
           current_row_count |-> current_row_count,
           tolerance_pct |-> tolerance_pct,
           raised |-> queryFails,
           ret |-> validate_cleaning_results([rows |-> current_row_count],
                      original_row_count, tolerance_pct, queryFails)]
    /\ UNCHANGED <<storeVars, invVars, routerVars, cleanVars, inferVars,
                   field_stats, cleaner_config, cleaning_plan, copies, copy_run,
                   analysis, report, column_queries,
                   integrity, column_state, statements, smart_ret>>

IntegrityColumns == {"a", "b", "c"}

\* validate_data_integrity with the exception of the schema query taken as
\* a failed check
validate_data_integrity_strict(fields, schema_columns, queryFails) ==
    IF queryFails THEN FALSE
    ELSE fields \ schema_columns = {}

\* validate_data_integrity: schema_columns are the column names the
\* INFORMATION_SCHEMA query returns; queryFails: building or running the
\* query raises.
validate_data_integrity(fields, schema_columns, queryFails) ==
    IF queryFails THEN TRUE
    ELSE fields \ schema_columns = {}

\* DataValidator.validate_data_integrity(table_ref, fields)
RunIntegrity(fields, schema_columns, queryFails) ==
    /\ validation = NoValidation
    /\ integrity = NoIntegrity
    /\ integrity' = [fields |-> fields, schema_columns |-> schema_columns,
                     raised |-> queryFails,
                     ret |-> validate_data_integrity(fields, schema_columns, queryFails)]
    /\ UNCHANGED <<storeVars, invVars, routerVars, cleanVars, inferVars, libVars,
                   column_state, statements, smart_ret>>

InitValid == InvocationsIdle /\ RouterIdle /\ CleanIdle /\ InferIdle /\ LibIdle

NextValid ==
    \/ \E original_row_count \in ValidOriginals, change \in ValidChanges,
          tolerance_pct \in ValidTolerances, queryFails \in BOOLEAN :
          /\ original_row_count + change >= 0
          /\ RunValidation(original_row_count, original_row_count + change,
                           tolerance_pct, queryFails)
    \/ \E fields \in SUBSET IntegrityColumns, schema_columns \in SUBSET IntegrityColumns,
          queryFails \in BOOLEAN :
          RunIntegrity(fields, schema_columns, queryFails)

SpecValid == InitValid /\ [][NextValid]_vars

\* C27: validate_cleaning_results returns False exactly when the absolute
\* change of the row count is more than tolerance_pct percent of the
\* original count, |current - original| * 100 > tolerance_pct * original;
\* at the tolerance, within it, and for an unchanged count it returns True.
C27_FalseOnlyBeyondTolerance ==
    validation # NoValidation =>
       LET change == validation.current_row_count - validation.original_row_count
           magnitude == IF change < 0 THEN -change ELSE change
       IN  ~validation.ret <=>
              magnitude * 100 > validation.tolerance_pct * validation.original_row_count

\* C33: validate_data_integrity returns False exactly when the schema query
\* succeeded and an expected column is missing from what it returned; with
\* every expected column there it returns True, and it returns True
\* whenever the query raises.
C33_IntegrityPermissive ==
    integrity # NoIntegrity =>
       /\ ~integrity.ret <=>
             (~integrity.raised /\ integrity.fields \ integrity.schema_columns # {})
       /\ integrity.raised => integrity.ret

C33_Witness ==
    /\ integrity.raised
    /\ integrity.ret
    /\ integrity.fields \ integrity.schema_columns # {}

(***************************************************************************)
(* SpecCopy: the clean_table function, which copies a table of its dataset *)
(* into a new table, and the clock.  A table is named by a record: the id  *)
(* table_id followed by one "_cleaned_<timestamp>" for each of stamps.     *)
(***************************************************************************)
\* how many times a copy is copied again
MaxCopyDepth == 2

RECURSIVE StampsUpTo(_)
StampsUpTo(n) ==
    IF n = 0 THEN {<<>>}
    ELSE StampsUpTo(n - 1) \cup {Append(st, ts) : st \in StampsUpTo(n - 1), ts \in 0..MaxTime}

CopyIds == [table_id : {"t"}, stamps : StampsUpTo(MaxCopyDepth)]
SourceId == [table_id |-> "t", stamps |-> <<>>]

\* the tables the function is triggered on: num_rows, the rows that repeat
\* an earlier row, the rows that hold a NULL
CopySources ==
    {t \in [rows : {0, 10, 1000}, dup_count : {0, 1, 99, 100, 600}, na_count : {0, 1, 100}] :
        /\ t.na_count <= t.rows
        /\ t.dup_count <= t.rows
        /\ t.rows > 0 => t.dup_count < t.rows}

\* f"{table_id}_cleaned_{timestamp}"
NewTableIdSame(table_id, timestamp) == table_id

NewTableId(table_id, timestamp) == [table_id EXCEPT !.stamps = Append(@, timestamp)]

\* the float literal 0.1
Tenth == TrueDiv(1, 10)

\* dup_percentage <= 0.1 and dup_count > 0
BelowOrAtCeiling(count, total_rows) ==
    ~FloatLess(Tenth, TrueDiv(count, total_rows)) /\ count > 0

\* dup_percentage < 0.1 and dup_count > 0, the same for na_percentage
BelowCeiling(count, total_rows) ==
    FloatLess(TrueDiv(count, total_rows), Tenth) /\ count > 0

\* What the cleaning query selects from the table t; both: the rows among
\* the repeated ones that hold a NULL.
Selected(t, distinct, not_null, both) ==
    IF distinct /\ not_null
    THEN [rows |-> t.rows - t.na_count - (t.dup_count - both), dup_count |-> 0, na_count |-> 0]
    ELSE IF distinct
    THEN [rows |-> t.rows - t.dup_count, dup_count |-> 0, na_count |-> t.na_count - both]
    ELSE IF not_null
    THEN [rows |-> t.rows - t.na_count, dup_count |-> t.dup_count - both, na_count |-> 0]
    ELSE t

CopyFailures == {"none", "get_table", "count", "query"}

\* clean_bq_table for the message naming table_id; fails: the call that
\* raises.  The query job writes its destination only if that is not there.
CleanBqTable(table_id, fails, both) ==
    LET t == copies[table_id]
        destination == NewTableId(table_id, now)
        distinct == BelowCeiling(t.dup_count, t.rows)
        not_null == BelowCeiling(t.na_count, t.rows)
        run == [source |-> table_id, destination |-> NoId, how |-> "raised",
                was |-> t, distinct |-> FALSE, not_null |-> FALSE]
    IN  /\ Len(table_id.stamps) < MaxCopyDepth
        /\ IF t # NoTable THEN both <= t.dup_count /\ both <= t.na_count ELSE both = 0
        /\ IF t = NoTable \/ fails = "get_table"
           THEN copy_run' = run /\ UNCHANGED copies
           ELSE IF t.rows = 0
           THEN copy_run' = [run EXCEPT !.how = "skipped"] /\ UNCHANGED copies
           ELSE IF fails = "count"
           THEN copy_run' = run /\ UNCHANGED copies
           ELSE IF fails = "query" \/ copies[destination] # NoTable
           THEN /\ copy_run' = [run EXCEPT !.destination = destination,
                                           !.distinct = distinct, !.not_null = not_null]
                /\ UNCHANGED copies
           ELSE /\ copy_run' = [run EXCEPT !.destination = destination, !.how = "copied",
                                           !.distinct = distinct, !.not_null = not_null]
                /\ copies' = [copies EXCEPT ![destination] = Selected(t, distinct, not_null, both)]
        /\ UNCHANGED <<storeVars, invVars, routerVars, cleanVars, inferVars,
                       field_stats, cleaner_config, cleaning_plan, validation,
                       analysis, report, column_queries, execVars>>

InitCopy ==
    /\ InvocationsIdle /\ RouterIdle /\ CleanIdle /\ InferIdle
    /\ PlanIdle /\ ValidIdle /\ AnalyzeIdle /\ ExecIdle
    /\ copies \in {[id \in CopyIds |-> IF id = SourceId THEN t ELSE NoTable] : t \in CopySources}
    /\ copy_run = NoRun

NextCopy ==
    \/ Tick
    \/ \E table_id \in CopyIds, fails \in CopyFailures, both \in 0..1 :
          CleanBqTable(table_id, fails, both)

SpecCopy == InitCopy /\ [][NextCopy]_vars

\* C25: the copy is made with DISTINCT exactly when the table has at least
\* one duplicate row and fewer than 10% of its rows are duplicates; with 600
\* duplicates of 1000 rows, with exactly 10%, and with none, it is made
\* without DISTINCT and, when no NULL filter applies, holds the duplicates.
C25_DistinctBelowCeiling ==
    copy_run.how = "copied" =>
       LET t == copy_run.was
       IN  /\ copy_run.distinct <=> (t.dup_count >= 1 /\ t.dup_count * 10 < t.rows)
           /\ (t.rows = 1000 /\ t.dup_count \in {0, 100, 600}) => ~copy_run.distinct
           /\ copy_run.distinct => copies[copy_run.destination].dup_count = 0
           /\ (~copy_run.distinct /\ ~copy_run.not_null) =>
                 copies[copy_run.destination].dup_count = t.dup_count

C25_Witness ==
    /\ copy_run.how = "copied"
    /\ copy_run.distinct
    /\ copy_run.was.rows = 1000
    /\ copy_run.was.dup_count = 99
    /\ copies[copy_run.destination].rows = 901

\* C26: no execution of clean_bq_table changes its source table, whether
\* it succeeds or fails; what it writes goes to a table other than its
\* source, and on an empty source it writes no table at all.
C26_SourceUntouched ==
    [][copy_run'.how # "none" =>
          /\ copies'[copy_run'.source] = copies[copy_run'.source]
          /\ copy_run'.destination # copy_run'.source
          /\ copy_run'.how = "skipped" => copies' = copies]_vars

C26_Witness ==
    /\ copy_run.how = "copied"
    /\ copy_run.source = SourceId
    /\ copies[copy_run.destination] # NoTable
    /\ copies[copy_run.destination] # copies[SourceId]
    /\ copies[SourceId] = copy_run.was

(***************************************************************************)
(* SpecAnalyze: analyze_table_quality applied to one table and one list of *)
(* columns.                                                                *)
(***************************************************************************)
MaxAnalyzedRows == 2
MaxAnalyzedColumns == 2

ColumnNames == {"a", "b", "c"}

RECURSIVE ColumnLists(_)
ColumnLists(n) ==
    IF n = 0 THEN {<<>>}
    ELSE ColumnLists(n - 1) \cup {Append(cols, c) : cols \in ColumnLists(n - 1), c \in ColumnNames}

\* return None
NoneReport == [none |-> TRUE]
NoneColumn == [none |-> TRUE]
\* an exception leaving _analyze_column
RaisedColumn == [raised |-> TRUE]

\* the values of a column: NULL, '', ' ' and 'x'
NullCell == <<"NULL">>
AnalyzedCells == {NullCell, <<>>, <<" ">>, <<"x">>}

RECURSIVE CellLists(_)
CellLists(n) ==
    IF n = 0 THEN {<<>>}
    ELSE CellLists(n - 1) \cup {Append(cells, c) : cells \in CellLists(n - 1), c \in AnalyzedCells}

\* The aggregate query of _analyze_column over the values of the column:
\* COUNT(*), COUNT(col), COUNTIF(TRIM(col) = ''),
\* COUNTIF(REGEXP_CONTAINS(col, r'^\s+$')).
ColumnCounts(cells) ==
    LET values == {k \in 1..Len(cells) : cells[k] # NullCell}
    IN  [total_rows |-> Len(cells),
         non_null_count |-> Cardinality(values),
         empty_string_count |-> Cardinality({k \in values : StripSpaces(cells[k]) = <<>>}),
         whitespace_only_count |->
             Cardinality({k \in values : /\ Len(cells[k]) > 0
                                         /\ \A c \in 1..Len(cells[k]) : cells[k][c] = " "})]

\* the dict _analyze_column returns for the counts of its query
ColumnStats(results) ==
    [non_null_pct |-> Percentage(results.non_null_count, results.total_rows),
     empty_pct |-> Percentage(results.empty_string_count, results.total_rows),
     whitespace_pct |-> Percentage(results.whitespace_only_count, results.total_rows)]

\* _analyze_column with the failure of its query passed on to the caller
analyze_column_propagating(cells, queryFails) ==
    IF queryFails THEN RaisedColumn
    ELSE IF Len(cells) = 0 THEN NoneColumn
    ELSE ColumnStats(ColumnCounts(cells))

\* _analyze_column on a column of the values cells; dividing by a zero
\* COUNT(*) raises inside the try.
analyze_column(cells, queryFails) ==
    IF queryFails \/ Len(cells) = 0 THEN NoneColumn
    ELSE ColumnStats(ColumnCounts(cells))

\* if num_rows == 0, with the test left out
IsEmptyTableNever(num_rows) == FALSE

\* if num_rows == 0
IsEmptyTable(num_rows) == num_rows = 0

\* analyze_table_quality: what it returns and the columns it has queried.
\* valid_ref: table_ref is a string with two dots; getFails: get_table
\* raises; failing: the columns whose query raises; cells: the values every
\* column of the table holds.
analyze_table_quality(valid_ref, getFails, num_rows, columns, failing, cells) ==
    IF ~valid_ref \/ getFails THEN [ret |-> NoneReport, queried |-> <<>>]
    ELSE IF IsEmptyTable(num_rows) THEN [ret |-> NoneReport, queried |-> <<>>]
    ELSE LET entry(col) == analyze_column(cells, col \in failing)
             raising == {k \in 1..Len(columns) : entry(columns[k]) = RaisedColumn}
         IN  IF raising # {}
             THEN [ret |-> NoneReport,
                   queried |-> SubSeq(columns, 1, CHOOSE k \in raising : \A m \in raising : k <= m)]
             ELSE [ret |-> [table |-> "p.d.t", total_rows |-> num_rows,
                            columns |-> [col \in {columns[k] : k \in 1..Len(columns)} |-> entry(col)]],
                   queried |-> columns]

AnalyzeTableQuality(valid_ref, getFails, num_rows, columns, failing, cells) ==
    LET result == analyze_table_quality(valid_ref, getFails, num_rows, columns, failing, cells)
    IN  /\ analysis = NoAnalysis
        /\ analysis' = [num_rows |-> num_rows, valid_ref |-> valid_ref, getFails |-> getFails,
                        columns |-> columns, failing |-> failing, cells |-> cells]
        /\ report' = result.ret
        /\ column_queries' = result.queried
        /\ UNCHANGED <<storeVars, invVars, routerVars, cleanVars, inferVars,
                       field_stats, cleaner_config, cleaning_plan, validation, copies, copy_run,
                       execVars>>

InitAnalyze == InvocationsIdle /\ RouterIdle /\ CleanIdle /\ InferIdle /\ LibIdle

NextAnalyze ==
    \E valid_ref \in BOOLEAN, getFails \in BOOLEAN, cells \in CellLists(MaxAnalyzedRows),
       columns \in ColumnLists(MaxAnalyzedColumns), failing \in SUBSET ColumnNames :
       AnalyzeTableQuality(valid_ref, getFails, Len(cells), columns, failing, cells)

SpecAnalyze == InitAnalyze /\ [][NextAnalyze]_vars

\* C28: for a table of zero rows analyze_table_quality returns None, as a
\* plain return value, and queries no column; a report it returns has
\* total_rows > 0, and a table with rows that can be read gets a report.
C28_EmptyTableSkipped ==
    analysis # NoAnalysis =>
       /\ analysis.num_rows = 0 => (report = NoneReport /\ column_queries = <<>>)
       /\ report # NoneReport => report.total_rows > 0
       /\ (analysis.num_rows > 0 /\ analysis.valid_ref /\ ~analysis.getFails) =>
             (report # NoneReport /\ report.total_rows = analysis.num_rows)

C28_Witness ==
    /\ analysis # NoAnalysis
    /\ analysis.num_rows = 0
    /\ analysis.valid_ref /\ ~analysis.getFails
    /\ Len(analysis.columns) = MaxAnalyzedColumns
    /\ report = NoneReport
    /\ column_queries = <<>>

\* C29: when the query of a column fails, the report is still returned:
\* every requested column has been queried and has its entry, None for
\* the columns whose query failed and statistics for the others.
C29_ColumnFailureIsolated ==
    (/\ analysis # NoAnalysis
     /\ analysis.num_rows > 0 /\ analysis.valid_ref /\ ~analysis.getFails) =>
       /\ report # NoneReport
       /\ column_queries = analysis.columns
       /\ \A k \in 1..Len(analysis.columns) :
             LET col == analysis.columns[k]
             IN  /\ col \in DOMAIN report.columns
                 /\ report.columns[col] = NoneColumn <=> col \in analysis.failing

C29_Witness ==
    /\ analysis # NoAnalysis
    /\ analysis.columns = <<"a", "b">>
    /\ analysis.failing = {"a"}
    /\ report # NoneReport
    /\ report.columns["a"] = NoneColumn
    /\ report.columns["b"] # NoneColumn
    /\ column_queries = <<"a", "b">>

\* C37: in every column of a report the empty-string count and the
\* whitespace-only count cover different values, so that the two
\* percentages add up to the share of values that are empty or whitespace
\* only, which is at most 100.
C37_CountsDisjoint ==
    (analysis # NoAnalysis /\ report # NoneReport) =>
       \A col \in DOMAIN report.columns :
          report.columns[col] # NoneColumn =>
             LET issue_pct == FloatAdd(report.columns[col].empty_pct,
                                       report.columns[col].whitespace_pct)
                 blank == {k \in 1..Len(analysis.cells) :
                              /\ analysis.cells[k] # NullCell
                              /\ StripSpaces(analysis.cells[k]) = <<>>}
             IN  /\ FloatCmp(issue_pct, 100) <= 0
                 /\ ~FloatLess(issue_pct, Percentage(Cardinality(blank), Len(analysis.cells)))
                 /\ ~FloatLess(Percentage(Cardinality(blank), Len(analysis.cells)), issue_pct)

(***************************************************************************)
(* SpecExecute: perform_smart_cleaning on a table of the columns           *)
(* ColumnNames, called with a quality report of its own format, or with    *)
(* the report analyze_table_quality has just returned for the table.       *)
(***************************************************************************)
ExecFieldLists == {<<>>, <<"a">>, <<"b">>, <<"a", "b">>, <<"b", "a">>}

\* quality_report[field]: no issues, 2%, 7% and 60% of 100 values
ExecStats ==
    { [total_rows |-> 100, empty_string_count |-> 0, whitespace_only_count |-> 0],
      [total_rows |-> 100, empty_string_count |-> 2, whitespace_only_count |-> 0],
      [total_rows |-> 100, empty_string_count |-> 6, whitespace_only_count |-> 1],
      [total_rows |-> 100, empty_string_count |-> 60, whitespace_only_count |-> 0] }

ExecReports == [{"a", "b"} -> ExecStats]

\* _execute_cleaning_operations issuing one UPDATE for each planned column,
\* the last of which is the one that fails
execute_cleaning_operations_per_column(columns, plan, queryFails) ==
    LET done == IF queryFails THEN Len(plan) - 1 ELSE Len(plan)
    IN  [ret |-> ~queryFails,
         statements |-> [k \in 1..Len(plan) |->
                            [kind |-> "UPDATE",
                             set |-> <<[field |-> plan[k].field,
                                        expr |-> FieldExpr(plan[k].operations)]>>]],
         columns |-> [c \in DOMAIN columns |->
                        IF \E k \in 1..done : plan[k].field = c THEN "cleaned" ELSE columns[c]]]

\* _execute_cleaning_operations: one UPDATE ... SET <every planned column>
\* WHERE true; the statement takes effect as a whole or, when it fails, not
\* at all, and its failure is answered with False.
execute_cleaning_operations(columns, plan, queryFails) ==
    [ret |-> ~queryFails,
     statements |-> <<[kind |-> "UPDATE",
                       set |-> [k \in 1..Len(plan) |->
                                  [field |-> plan[k].field,
                                   expr |-> FieldExpr(plan[k].operations)]]]>>,
     columns |-> IF queryFails THEN columns
                 ELSE [c \in DOMAIN columns |->
                         IF \E k \in 1..Len(plan) : plan[k].field = c
                         THEN "cleaned" ELSE columns[c]]]

\* perform_smart_cleaning without the test for an empty plan
perform_smart_cleaning_always_executes(columns, fields, quality_report, queryFails) ==
    LET plan == determine_cleaning_operations(fields, quality_report, DefaultConfig)
    IN  [plan |-> plan] @@ execute_cleaning_operations(columns, plan, queryFails)

\* perform_smart_cleaning(table_ref, fields, quality_report) with the default
\* config, on a table whose columns are in the state columns
perform_smart_cleaning(columns, fields, quality_report, queryFails) ==
    LET plan == determine_cleaning_operations(fields, quality_report, DefaultConfig)
    IN  IF plan = <<>>
        THEN [plan |-> plan, ret |-> TRUE, statements |-> <<>>, columns |-> columns]
        ELSE [plan |-> plan] @@ execute_cleaning_operations(columns, plan, queryFails)

\* DataCleaner.perform_smart_cleaning called with a report of its own format
PerformSmartCleaning(fields, quality_report, queryFails) ==
    LET run == perform_smart_cleaning(column_state, fields, quality_report, queryFails)
    IN  /\ smart_ret = "none"
        /\ field_stats' = quality_report
        /\ cleaner_config' = DefaultConfig
        /\ cleaning_plan' = run.plan
        /\ column_state' = run.columns
        /\ statements' = statements \o run.statements
        /\ smart_ret' = IF run.ret THEN "True" ELSE "False"
        /\ UNCHANGED <<storeVars, invVars, routerVars, cleanVars, inferVars,
                       validation, copies, copy_run, analysis, report, column_queries,
                       integrity>>

\* analyze_table_quality(table_ref, columns), and perform_smart_cleaning
\* (table_ref, columns, quality_report) with the report it returned, unless
\* that is None
AnalyzeThenClean(columns, failing, cells, queryFails) ==
    LET result == analyze_table_quality(TRUE, FALSE, Len(cells), columns, failing, cells)
        run == perform_smart_cleaning(column_state, columns, result.ret, queryFails)
    IN  /\ smart_ret = "none"
        /\ analysis' = [num_rows |-> Len(cells), valid_ref |-> TRUE, getFails |-> FALSE,
                        columns |-> columns, failing |-> failing, cells |-> cells]
        /\ report' = result.ret
        /\ column_queries' = result.queried
        /\ cleaner_config' = DefaultConfig
        /\ IF result.ret = NoneReport
           THEN /\ smart_ret' = "skipped"
                /\ UNCHANGED <<cleaning_plan, column_state, statements>>
           ELSE /\ cleaning_plan' = run.plan
                /\ column_state' = run.columns
                /\ statements' = statements \o run.statements
                /\ smart_ret' = IF run.ret THEN "True" ELSE "False"
        /\ UNCHANGED <<storeVars, invVars, routerVars, cleanVars, inferVars,
                       field_stats, validation, copies, copy_run, integrity>>

InitExecute ==
    /\ InvocationsIdle /\ RouterIdle /\ CleanIdle /\ InferIdle
    /\ PlanIdle /\ ValidIdle /\ CopyIdle /\ AnalyzeIdle
    /\ integrity = NoIntegrity
    /\ column_state = [c \in ColumnNames |-> "raw"]
    /\ statements = <<>>
    /\ smart_ret = "none"

NextExecute ==
    \/ \E fields \in ExecFieldLists, quality_report \in ExecReports, queryFails \in BOOLEAN :
          PerformSmartCleaning(fields, quality_report, queryFails)
    \/ \E columns \in ColumnLists(MaxAnalyzedColumns), failing \in SUBSET {"a"},
          cells \in CellLists(MaxAnalyzedRows), queryFails \in BOOLEAN :
          AnalyzeThenClean(columns, failing, cells, queryFails)

SpecExecute == InitExecute /\ [][NextExecute]_vars

\* C31: when no column is eligible, perform_smart_cleaning returns True,
\* issues no statement against the table and leaves every column as it was.
C31_EmptyPlanSucceeds ==
    (smart_ret \notin {"none", "skipped"} /\ cleaning_plan = <<>>) =>
       /\ smart_ret = "True"
       /\ statements = <<>>
       /\ \A c \in ColumnNames : column_state[c] = "raw"

C31_Witness ==
    /\ smart_ret = "True"
    /\ cleaning_plan = <<>>
    /\ analysis = NoAnalysis
    /\ field_stats.a.empty_string_count = 60
    /\ statements = <<>>
    /\ \A c \in ColumnNames : column_state[c] = "raw"

\* C32: the planned columns are cleaned by one UPDATE that sets all of
\* them, so that they are cleaned all together or not at all; when the
\* UPDATE fails, False is returned, nothing is raised and no other
\* statement follows it.
C32_SingleBulkUpdate ==
    (smart_ret \notin {"none", "skipped"} /\ cleaning_plan # <<>>) =>
       LET planned == {cleaning_plan[k].field : k \in 1..Len(cleaning_plan)}
       IN  /\ Len(statements) = 1
           /\ statements[1].kind = "UPDATE"
           /\ {statements[1].set[k].field : k \in 1..Len(statements[1].set)} = planned
           /\ \/ \A c \in planned : column_state[c] = "cleaned"
              \/ \A c \in planned : column_state[c] = "raw"
           /\ smart_ret \in {"True", "False"}
           /\ smart_ret = "False" => \A c \in ColumnNames : column_state[c] = "raw"
           /\ smart_ret = "True" => \A c \in planned : column_state[c] = "cleaned"

C32_Witness ==
    /\ Len(cleaning_plan) = 2
    /\ smart_ret = "False"
    /\ Len(statements) = 1
    /\ \A c \in ColumnNames : column_state[c] = "raw"

\* C36: every column for which the report of analyze_table_quality gives
\* min_issue_pct <= empty_pct + whitespace_pct <= max_issue_pct is in the
\* plan perform_smart_cleaning makes from that report.
C36_PlanFollowsReport ==
    (analysis # NoAnalysis /\ report # NoneReport /\ smart_ret # "none") =>
       \A col \in DOMAIN report.columns :
          LET issue_pct == FloatAdd(report.columns[col].empty_pct,
                                    report.columns[col].whitespace_pct)
          IN  (/\ report.columns[col] # NoneColumn
               /\ FloatCmp(issue_pct, DefaultConfig.min_issue_percentage) >= 0
               /\ FloatCmp(issue_pct, DefaultConfig.max_empty_percentage) <= 0) =>
                 \E k \in 1..Len(cleaning_plan) : cleaning_plan[k].field = col

=============================================================================
